---- MODULE Spec2Model ----
(***************************************************************************)
(* A model of r2x.parser.plexos.PlexosParser: scenario resolution          *)
(* (_process_scenarios, _get_model_data), the property aggregator          *)
(* (_parse_property_data), the entity builders, the relationship wiring    *)
(* and the load-profile extraction of build_system.                        *)
(*                                                                         *)
(* Python values are represented as follows.  None is the string Null in   *)
(* string columns and the number NullVal in property_value.  A dict is a   *)
(* function whose DOMAIN is its key set.  A polars DataFrame is a sequence *)
(* of row records, in row order.                                           *)
(***************************************************************************)
EXTENDS Integers, Sequences, FiniteSets, TLC

VARIABLES
    db,                    \* self.db: the PlexosSQLite store (t_object, t_membership)
    run_files,             \* the files under config.run_folder, by relative path
    model_name,            \* the model name handed to _process_scenarios
    plexos_data,           \* self.plexos_data: the property table
    scenarios,             \* self.scenarios (<<>> while the attribute is unset)
    system,                \* self.system: the components registered so far
    pc,                    \* position of the parser in its life cycle
    outcome,               \* "ok", or the exception that ended the call
    data_filter,           \* argument of the last _get_model_data call
    result,                \* the rows the last _get_model_data call returned
    record_data,           \* argument of the last _parse_property_data call
    mapped_properties,     \* first element of its return value
    multi_band_properties  \* second element of its return value

vars == <<db, run_files, model_name, plexos_data, scenarios, system, pc, outcome,
          data_filter, result, record_data, mapped_properties, multi_band_properties>>

-----------------------------------------------------------------------------
(* Bounds of the model.                                                    *)

MaxRows == 2          \* rows of a property table in SpecResolve
MaxRecords == 3       \* records handed to the aggregator in SpecAgg
MaxBand == 2          \* bands 1..MaxBand in SpecAgg
MaxPick == 2          \* optional input blocks added to the base export in Spec

-----------------------------------------------------------------------------
(* Python's None.                                                          *)

Null == "null"
NullVal == 0 - 1

(* Generic helpers on sequences and dicts.                                 *)

InSeq(x, s) == \E i \in 1..Len(s) : s[i] = x

Range(s) == {s[i] : i \in 1..Len(s)}

EmptyDict == [k \in {} |-> 0]

DictSet(d, k, v) == [x \in DOMAIN d \cup {k} |-> IF x = k THEN v ELSE d[x]]

DictDel(d, k) == [x \in DOMAIN d \ {k} |-> d[x]]

-----------------------------------------------------------------------------
(* A row of the property table (DEFAULT_QUERY_COLUMNS_SCHEMA).  The        *)
(* columns no code path reads (class ids beside class names, date_from,    *)
(* date_to, memo) are left out.  category is the category of the child     *)
(* object, Null when it has none.                                          *)

Row(pclass, poid, cclass, cat, oid, nm, prop, unit, val, bnd, txt, scen) ==
    [parent_class |-> pclass, parent_object_id |-> poid, child_class |-> cclass,
     category |-> cat, object_id |-> oid, name |-> nm, property_name |-> prop,
     property_unit |-> unit, property_value |-> val, band |-> bnd, text |-> txt,
     scenario |-> scen]

(* A row predicate as the builders write it:                               *)
(*   (pl.col("child_class") == child) & (pl.col("parent_class") == parent) *)
ClassFilter(parent, child) == [parent_class |-> parent, child_class |-> child]

Matches(row, flt) ==
    /\ row.child_class = flt.child_class
    /\ row.parent_class = flt.parent_class

-----------------------------------------------------------------------------
(* The store.  t_object is the set of object rows [object_id, name,        *)
(* class]; t_membership is the membership table in row order, each row     *)
(* [parent_object_id, child_object_id, collection]; object_data is the     *)
(* result of the object query (plexosdb's object_query.sql).               *)

ObjectsNamed(d, nm) == {o \in d.t_object : o.name = nm}

ObjectById(d, oid) == CHOOSE o \in d.t_object : o.object_id = oid

\* select obj.name from t_membership mem left join t_object obj
\*   on obj.object_id = mem.child_object_id
\*   where mem.parent_object_id = model_id and obj.class_id = Scenario
ValidScenarios(d, mid) ==
    LET rows == SelectSeq(d.t_membership,
                    LAMBDA m : /\ m.parent_object_id = mid
                               /\ ObjectById(d, m.child_object_id).class = "Scenario")
    IN  [i \in 1..Len(rows) |-> ObjectById(d, rows[i].child_object_id).name]

\* a membership row as db.get_memberships returns it: index 2 of the tuple is
\* the parent's name, index 3 the child's name, index 4 the collection
MembershipTuple(d, m) ==
    [parent_class |-> ObjectById(d, m.parent_object_id).class,
     child_class |-> ObjectById(d, m.child_object_id).class,
     parent_name |-> ObjectById(d, m.parent_object_id).name,
     child_name |-> ObjectById(d, m.child_object_id).name,
     collection |-> m.collection]

\* db.get_memberships(*object_names, object_class=..., collection=...);
\* collection is Null when the call gives none
GetMemberships(d, object_names, object_class, collection) ==
    LET all == [i \in 1..Len(d.t_membership) |-> MembershipTuple(d, d.t_membership[i])]
    IN  SelectSeq(all,
            LAMBDA t : /\ t.parent_name \in object_names \/ t.child_name \in object_names
                       /\ t.parent_class = object_class \/ t.child_class = object_class
                       /\ collection = Null \/ t.collection = collection)

-----------------------------------------------------------------------------
(* _process_scenarios: the exception it raises ("ok" when it returns) and  *)
(* the value of self.scenarios it leaves.                                  *)

\* a lookup that takes the first match of an ambiguous name
ProcessScenariosOutcomeFirstMatch(d, nm) ==
    LET model_id == {o.object_id : o \in ObjectsNamed(d, nm)}
    IN  IF nm = Null THEN "ModelError"
        ELSE IF model_id = {} THEN "ok"
        ELSE IF ValidScenarios(d, CHOOSE i \in model_id : \A j \in model_id : i <= j) = <<>>
             THEN "AssertionError"
        ELSE "ok"

ProcessScenariosOutcome(d, nm) ==
    LET model_id == {o.object_id : o \in ObjectsNamed(d, nm)}
    IN  IF nm = Null THEN "ModelError"
        ELSE IF Cardinality(model_id) > 1 THEN "ModelError"
        ELSE IF model_id = {} THEN "ok"
        ELSE IF ValidScenarios(d, CHOOSE i \in model_id : TRUE) = <<>>
             THEN "AssertionError"
        ELSE "ok"

ProcessScenariosValue(d, nm) ==
    LET model_id == {o.object_id : o \in ObjectsNamed(d, nm)}
    IN  IF nm # Null /\ Cardinality(model_id) = 1
           /\ ProcessScenariosOutcome(d, nm) = "ok"
        THEN ValidScenarios(d, CHOOSE i \in model_id : TRUE)
        ELSE <<>>

-----------------------------------------------------------------------------
(* _get_model_data.                                                        *)

\* pl.col("scenario").is_in(self.scenarios): false on a null scenario
ScenarioFilter(row, scens) == row.scenario # Null /\ InSeq(row.scenario, scens)

ScenarioSpecificData(data, flt, scens) ==
    SelectSeq(data, LAMBDA r : Matches(r, flt) /\ ScenarioFilter(r, scens))

\* a base_case_filter that drops every base-case row of an entity that has a
\* scenario row (override per entity instead of per pair)
BaseCaseFilterPerEntity(row, scenario_specific_data) ==
    \/ /\ row.scenario = Null
       /\ ~ \E i \in 1..Len(scenario_specific_data) :
                scenario_specific_data[i].name = row.name
    \/ row.property_name = Null

\* the widened base_case_filter of lines 716-722
BaseCaseFilter(row, scenario_specific_data) ==
    \/ row.scenario = Null
    \/ ~ (\/ \E i \in 1..Len(scenario_specific_data) :
                 scenario_specific_data[i].name = row.name
          \/ \E i \in 1..Len(scenario_specific_data) :
                 scenario_specific_data[i].property_name = row.property_name)
    \/ row.property_name = Null

\* a guard that lets an empty scenario list through
GetModelDataNeverRaises(scens) == FALSE

\* raises ModelError when self.scenarios is unset or empty
GetModelDataRaises(scens) == scens = <<>>

GetModelData(data, flt, scens) ==
    LET scenario_specific_data == ScenarioSpecificData(data, flt, scens)
    IN  IF scenario_specific_data = <<>>
        THEN SelectSeq(data, LAMBDA r : Matches(r, flt) /\ r.scenario = Null)
        ELSE scenario_specific_data \o
             SelectSeq(data, LAMBDA r : /\ Matches(r, flt)
                                        /\ BaseCaseFilter(r, scenario_specific_data))

-----------------------------------------------------------------------------
(* Configuration.  self.property_map is the inverse of                     *)
(* config.defaults["plexos_property_map"]: source property name to target  *)
(* field name.  Keys that are not in it map to themselves.                 *)

PropertyMap ==
    [p \in {"Units", "Max Capacity", "Pump Load", "Voltage", "Max Flow", "Min Provision",
            "Flow Limit"} |->
        CASE p = "Units" -> "available"
          [] p = "Max Capacity" -> "base_power"
          [] p = "Pump Load" -> "pump_load"
          [] p = "Voltage" -> "base_voltage"
          [] p = "Max Flow" -> "rating_up"
          [] p = "Min Provision" -> "requirement"
          [] p = "Flow Limit" -> "active_power_flow_limits"]

\* self.property_map.get(key, key)
PropertyMapGet(key) == IF key \in DOMAIN PropertyMap THEN PropertyMap[key] ELSE key

(* The unit registry (r2x.units.ureg).  unit.replace("$", "usd") on the    *)
(* unit tokens of the model, and the tokens the registry resolves.         *)

ReplaceDollar(unit) ==
    CASE unit = "$" -> "usd"
      [] unit = "$/MWh" -> "usd/MWh"
      [] OTHER -> unit

KnownUnits == {"MW", "MWh", "kV", "usd", "usd/MWh"}

\* a number, or a pint Quantity when unit is not Null
Quantity(mag, unit) == [mag |-> mag, unit |-> unit]

-----------------------------------------------------------------------------
(* _parse_property_data.  The loop state is the three locals and the       *)
(* exception raised so far (Null while none).                              *)

\* lines 892-900: the unit the value is multiplied by, Null for none
ResolveUnit(property_unit) ==
    LET unit == ReplaceDollar(property_unit)
    IN  IF unit = "-" \/ unit = "" THEN Null
        ELSE IF unit \in KnownUnits THEN unit
        ELSE Null

\* f"{mapped_property_name}_{band}"
BandFieldName(mapped_property_name, band) ==
    mapped_property_name \o "_" \o ToString(band)

\* the branch of lines 905-915 taken once prop_name is a key of property_counts
ParseLaterRecord(st, mapped_property_name, band, value) ==
    IF mapped_property_name \notin DOMAIN st.property_counts
    THEN [st EXCEPT !.error = "KeyError"]
    ELSE IF band \notin st.property_counts[mapped_property_name]
    THEN [st EXCEPT
            !.mapped_properties =
                DictSet(@, BandFieldName(mapped_property_name, band), value),
            !.property_counts =
                DictSet(@, mapped_property_name,
                        st.property_counts[mapped_property_name] \cup {band}),
            !.multi_band_properties = @ \cup {mapped_property_name}]
    ELSE [st EXCEPT
            !.mapped_properties = DictSet(@, mapped_property_name, value)]

\* one iteration of the loop of lines 888-915
ParseRecord(st, record) ==
    IF st.error # Null THEN st
    ELSE IF record.property_unit = Null THEN [st EXCEPT !.error = "AttributeError"]
    ELSE
      LET band == record.band
          prop_name == record.property_name
          mapped_property_name == PropertyMapGet(prop_name)
          value == Quantity(record.property_value, ResolveUnit(record.property_unit))
      IN  IF prop_name \notin DOMAIN st.property_counts
          THEN [st EXCEPT
                  !.mapped_properties = DictSet(@, mapped_property_name, value),
                  !.property_counts = DictSet(@, mapped_property_name, {band})]
          ELSE ParseLaterRecord(st, mapped_property_name, band, value)

RECURSIVE ParseLoop(_, _)
ParseLoop(st, records) ==
    IF records = <<>> THEN st
    ELSE ParseLoop(ParseRecord(st, Head(records)), Tail(records))

ParsePropertyData(records) ==
    ParseLoop([mapped_properties |-> EmptyDict, property_counts |-> EmptyDict,
               multi_band_properties |-> {}, error |-> Null], records)

\* the record dicts of lines 367-369 and 488-490
PropertyRecords(rows) ==
    [i \in 1..Len(rows) |->
        [band |-> rows[i].band, property_name |-> rows[i].property_name,
         property_value |-> rows[i].property_value,
         property_unit |-> rows[i].property_unit]]


-----------------------------------------------------------------------------
(* The rest of the configuration (config.defaults) and the schema of the   *)
(* component classes of r2x.model.                                         *)

\* config.defaults["model_map"]: fuel name to class name
ModelMap ==
    [f \in {"gas", "water", "coal"} |->
        CASE f = "gas" -> "ThermalStandard"
          [] f = "water" -> "HydroPumpedStorage"
          [] f = "coal" -> "NotAModel"]

\* config.defaults["generator_map"]: generator name to class name
GeneratorMap == [g \in {"g2", "g3", "g4"} |-> "RenewableDispatch"]

\* config.defaults["tech_fuel_pm_map"]: fuel name to prime mover and fuel
PrimeMoverMap ==
    [f \in {"gas", "water", "default"} |->
        CASE f = "gas" -> [type |-> "CT", fuel |-> "GAS"]
          [] f = "water" -> [type |-> "HY", fuel |-> "WATER"]
          [] f = "default" -> [type |-> "OT", fuel |-> "OTHER"]]

\* config.defaults["reserve_types"]: type code to reserve type and direction
ReserveTypes ==
    [c \in {"1", "2", "default"} |->
        CASE c = "1" -> [type |-> "SPINNING", direction |-> "UP"]
          [] c = "2" -> [type |-> "REGULATION", direction |-> "DOWN"]
          [] c = "default" -> [type |-> "FLEXIBILITY", direction |-> "UP"]]

\* config.weather_year
WeatherYear == 2007

\* the generator classes r2x.model defines; getattr(R2X_MODELS, x, None) is
\* None for every other string
GeneratorModels == {"ThermalStandard", "RenewableDispatch", "HydroPumpedStorage"}

\* cls.model_fields
ModelFields(cls) ==
    CASE cls = "LoadZone" -> {"name", "ext"}
      [] cls = "ACBus" -> {"name", "id", "load_zone", "bus_type", "base_voltage", "ext"}
      [] cls = "MonitoredLine" -> {"name", "from_bus", "to_bus", "rating_up", "ext"}
      [] cls = "TransmissionInterface" -> {"name", "active_power_flow_limits", "ext"}
      [] cls = "Reserve" -> {"name", "type", "direction", "requirement", "ext"}
      [] cls = "GenericBattery" ->
            {"name", "available", "base_power", "storage_capacity", "prime_mover_type",
             "bus", "ext"}
      [] cls = "HydroPumpedStorage" ->
            {"name", "available", "base_power", "pump_load", "prime_mover_type", "fuel",
             "bus", "ext"}
      [] cls = "PowerLoad" -> {"name", "bus", "max_active_power"}
      [] OTHER ->
            {"name", "available", "base_power", "prime_mover_type", "fuel", "bus", "ext"}

\* the fields of cls for which is_required() holds
RequiredFields(cls) ==
    CASE cls = "LoadZone" -> {"name"}
      [] cls = "ACBus" -> {"name", "id"}
      [] cls = "MonitoredLine" -> {"name", "from_bus", "to_bus"}
      [] cls = "TransmissionInterface" -> {"name", "active_power_flow_limits"}
      [] cls = "Reserve" -> {"name", "type", "direction"}
      [] cls = "GenericBattery" -> {"name", "base_power", "storage_capacity"}
      [] cls = "PowerLoad" -> {"name"}
      [] cls = "ReserveMap" -> {"name"}
      [] cls = "TransmissionInterfaceMap" -> {"name"}
      [] OTHER -> {"name", "base_power"}

-----------------------------------------------------------------------------
(* The system container.  system[cls] is the sequence of the components of *)
(* class cls in the order they were added; a component is the dict of the  *)
(* fields it was constructed with.  A builder's loop state is              *)
(* [system, error], error being the exception raised (Null while none).    *)

Running(sys) == [system |-> sys, error |-> Null]

Raise(st, exception) == [st EXCEPT !.error = exception]

HasComponent(sys, cls, nm) == \E i \in 1..Len(sys[cls]) : sys[cls][i]["name"] = nm

\* cls(**valid_fields) followed by system.add_component: pydantic rejects a
\* missing required field, the container a second component of that name.
\* Components are kept per container class (the class get_components is
\* asked for); the key "class" records the class that was instantiated.
AddComponent(st, container, cls, valid_fields) ==
    IF st.error # Null THEN st
    ELSE IF ~ (RequiredFields(cls) \subseteq DOMAIN valid_fields)
    THEN Raise(st, "ValidationError")
    ELSE IF HasComponent(st.system, container, valid_fields["name"])
    THEN Raise(st, "ISAlreadyAttached")
    ELSE [st EXCEPT !.system[container] = Append(@, DictSet(valid_fields, "class", cls))]

\* the names of the components of class cls, in container order
ComponentNames(sys, cls) == [i \in 1..Len(sys[cls]) |-> sys[cls][i]["name"]]

-----------------------------------------------------------------------------
(* Shared steps of the entity builders.                                    *)

RECURSIVE Distinct(_)
\* the elements of a sequence in order of first appearance
Distinct(s) ==
    IF s = <<>> THEN <<>>
    ELSE <<Head(s)>> \o Distinct(SelectSeq(Tail(s), LAMBDA x : x # Head(s)))

\* df.pivot(index=DEFAULT_INDEX, columns="property_name",
\*          values="property_value", aggregate_function="first"):
\* one dict per (object_id, name, category) in order of first appearance,
\* holding the index columns and, per property, the value of the first row.
\* Cells that are None are left out (every builder drops them).
PivotRow(rows, key) ==
    LET own == SelectSeq(rows, LAMBDA r : /\ r.object_id = key.object_id
                                          /\ r.name = key.name
                                          /\ r.category = key.category)
        props == {own[i].property_name : i \in 1..Len(own)}
        first(p) == own[CHOOSE i \in 1..Len(own) :
                          /\ own[i].property_name = p
                          /\ \A j \in 1..(i - 1) : own[j].property_name # p].property_value
        filled == {p \in props : p # Null /\ first(p) # NullVal}
        index == {"object_id", "name"}
                     \cup (IF key.category # Null THEN {"category"} ELSE {})
    IN  [k \in index \cup filled |->
            IF k = "object_id" THEN key.object_id
            ELSE IF k = "name" THEN key.name
            ELSE IF k = "category" THEN key.category
            ELSE first(k)]

Pivot(rows) ==
    LET keys == Distinct([i \in 1..Len(rows) |->
                             [object_id |-> rows[i].object_id, name |-> rows[i].name,
                              category |-> rows[i].category]])
    IN  [i \in 1..Len(keys) |-> PivotRow(rows, keys[i])]

\* {self.property_map.get(key, key): value for key, value in d.items()}, for
\* a dict no two keys of which map to the same field
MapKeys(d) ==
    [k \in {PropertyMapGet(x) : x \in DOMAIN d} |->
        d[CHOOSE x \in DOMAIN d : PropertyMapGet(x) = k]]

\* the dict d restricted to the key set keys
Restrict(d, keys) == [k \in DOMAIN d \cap keys |-> d[k]]

\* valid_fields and ext_data of a mapped dict, "ext" set when ext_data is
\* not empty
ValidFields(mapped, cls) ==
    LET valid == Restrict(mapped, ModelFields(cls))
        ext_data == Restrict(mapped, DOMAIN mapped \ ModelFields(cls))
    IN  IF DOMAIN ext_data # {} THEN DictSet(valid, "ext", ext_data) ELSE valid

\* the rows of the names of a table, in order of first appearance
Names(rows) == Distinct([i \in 1..Len(rows) |-> rows[i].name])

\* all orders of a finite set of names: the orders in which
\* df.group_by("name") may yield its groups
Orders(S) == {f \in [1..Cardinality(S) -> S] : \A i, j \in DOMAIN f : f[i] = f[j] => i = j}

RECURSIVE ForEach(_, _, _, _)
\* for i, x in enumerate(s): st = Step(st, x, i), from position i on; a Step
\* returns its argument unchanged once an exception is raised
ForEach(Step(_, _, _), st, s, i) ==
    IF i > Len(s) THEN st
    ELSE ForEach(Step, Step(st, s[i], i), s, i + 1)

-----------------------------------------------------------------------------
(* _construct_load_zones                                                   *)

LoadZoneStep(st, region, i) ==
    IF st.error # Null THEN st
    ELSE AddComponent(st, "LoadZone", "LoadZone", ValidFields(region, "LoadZone"))

ConstructLoadZones(sys, d, data, scens) ==
    IF GetModelDataRaises(scens) THEN Raise(Running(sys), "ModelError")
    ELSE LET regions == GetModelData(data, ClassFilter("System", "Region"), scens)
         IN  ForEach(LoadZoneStep, Running(sys), Pivot(regions), 1)

-----------------------------------------------------------------------------
(* _construct_buses                                                        *)

\* lines 217-219: 230.0 when base_voltage is missing or zero
BaseVoltage(valid_fields) ==
    IF "base_voltage" \notin DOMAIN valid_fields \/ valid_fields["base_voltage"] = 0
    THEN 230
    ELSE valid_fields["base_voltage"]

\* a bus step that gives the bus the index enumerate yields, idx, as its id
BusStepIdx(st, bus, i, buses_region) ==
    IF st.error # Null THEN st
    ELSE
      LET valid_fields == ValidFields(MapKeys(bus), "ACBus")
          region == SelectSeq(buses_region,
                              LAMBDA r : r.parent_object_id = bus["object_id"])
      IN  IF Len(region) # 1 THEN Raise(st, "ValueError")
          ELSE IF ~HasComponent(st.system, "LoadZone", region[1].name)
          THEN Raise(st, "ISNotStored")
          ELSE AddComponent(st, "ACBus", "ACBus",
                   DictSet(DictSet(DictSet(DictSet(valid_fields,
                       "load_zone", region[1].name),
                       "bus_type", "PV"),
                       "base_voltage", BaseVoltage(valid_fields)),
                       "id", i - 1))

\* lines 198-220, for the bus at position i of the pivot (idx = i - 1)
BusStep(st, bus, i, buses_region) ==
    IF st.error # Null THEN st
    ELSE
      LET valid_fields == ValidFields(MapKeys(bus), "ACBus")
          region == SelectSeq(buses_region,
                              LAMBDA r : r.parent_object_id = bus["object_id"])
      IN  IF Len(region) # 1 THEN Raise(st, "ValueError")
          ELSE IF ~HasComponent(st.system, "LoadZone", region[1].name)
          THEN Raise(st, "ISNotStored")
          ELSE AddComponent(st, "ACBus", "ACBus",
                   DictSet(DictSet(DictSet(DictSet(valid_fields,
                       "load_zone", region[1].name),
                       "bus_type", "PV"),
                       "base_voltage", BaseVoltage(valid_fields)),
                       "id", i))

ConstructBuses(sys, d, data, scens) ==
    IF GetModelDataRaises(scens) THEN Raise(Running(sys), "ModelError")
    ELSE LET system_buses == GetModelData(data, ClassFilter("System", "Node"), scens)
             buses_region == GetModelData(data, ClassFilter("Node", "Region"), scens)
         IN  ForEach(LAMBDA st, bus, i : BusStep(st, bus, i, buses_region),
                     Running(sys), Pivot(system_buses), 1)

-----------------------------------------------------------------------------
(* _construct_branches                                                     *)

LineStep(st, line, i, memberships) ==
    IF st.error # Null THEN st
    ELSE
      LET valid_fields == ValidFields(MapKeys(line), "MonitoredLine")
          from == SelectSeq(memberships,
                      LAMBDA m : m.parent_name = line["name"] /\ m.collection = "LineNodeFrom")
          to == SelectSeq(memberships,
                      LAMBDA m : m.parent_name = line["name"] /\ m.collection = "LineNodeTo")
      IN  IF from = <<>> THEN Raise(st, "StopIteration")
          ELSE IF ~HasComponent(st.system, "ACBus", from[1].child_name)
          THEN Raise(st, "ISNotStored")
          ELSE IF to = <<>> THEN Raise(st, "StopIteration")
          ELSE IF ~HasComponent(st.system, "ACBus", to[1].child_name)
          THEN Raise(st, "ISNotStored")
          ELSE AddComponent(st, "MonitoredLine", "MonitoredLine",
                   DictSet(DictSet(valid_fields, "from_bus", from[1].child_name),
                           "to_bus", to[1].child_name))

ConstructBranches(sys, d, data, scens) ==
    IF GetModelDataRaises(scens) THEN Raise(Running(sys), "ModelError")
    ELSE LET system_lines == GetModelData(data, ClassFilter("System", "Line"), scens)
             lines_pivot == Pivot(system_lines)
             memberships ==
                 GetMemberships(d, {lines_pivot[i]["name"] : i \in 1..Len(lines_pivot)},
                                "Line", Null)
         IN  ForEach(LAMBDA st, line, i : LineStep(st, line, i, memberships),
                     Running(sys), lines_pivot, 1)

-----------------------------------------------------------------------------
(* _construct_interfaces                                                   *)

\* interface_property_map.get(key, key): the property map restricted to the
\* targets that are fields of the interface class
InterfacePropertyMapGet(key) ==
    IF key \in DOMAIN PropertyMap /\ PropertyMap[key] \in ModelFields("TransmissionInterface")
    THEN PropertyMap[key]
    ELSE key

InterfaceStep(st, interface, i) ==
    IF st.error # Null THEN st
    ELSE
      LET mapped_interface ==
              [k \in {InterfacePropertyMapGet(x) : x \in DOMAIN interface} |->
                  interface[CHOOSE x \in DOMAIN interface : InterfacePropertyMapGet(x) = k]]
          valid_fields == ValidFields(mapped_interface, "TransmissionInterface")
      IN  IF ~ (RequiredFields("TransmissionInterface") \subseteq DOMAIN valid_fields)
          THEN st
          ELSE AddComponent(st, "TransmissionInterface", "TransmissionInterface", valid_fields)

\* mapping[key].append(value) on a defaultdict(list)
MappingAppend(mapping, key, value) ==
    DictSet(mapping, key,
            IF key \in DOMAIN mapping THEN Append(mapping[key], value) ELSE <<value>>)

\* lines 644-660: st.system is the container, st.mapping the mapping of the
\* TransmissionInterfaceMap that is not yet added
InterfaceLineStep(st, line, i, lines_memberships) ==
    IF st.error # Null THEN st
    ELSE
      LET found == SelectSeq(lines_memberships, LAMBDA m : m.child_name = line["name"])
      IN  IF found = <<>> THEN st
          ELSE IF ~HasComponent(st.system, "TransmissionInterface", found[1].parent_name)
          THEN st
          ELSE [st EXCEPT !.mapping =
                   MappingAppend(@, found[1].parent_name, "MonitoredLine." \o line["name"])]

ConstructInterfaces(sys, d, data, scens) ==
    IF GetModelDataRaises(scens) THEN Raise(Running(sys), "ModelError")
    ELSE
      LET system_interfaces == GetModelData(data, ClassFilter("System", "Interface"), scens)
          built == ForEach(InterfaceStep, Running(sys), Pivot(system_interfaces), 1)
          lines == ComponentNames(built.system, "MonitoredLine")
          lines_memberships == GetMemberships(d, Range(lines), "Line", "InterfaceLines")
          wired == ForEach(LAMBDA st, line, i : InterfaceLineStep(st, line, i, lines_memberships),
                           [system |-> built.system, error |-> built.error,
                            mapping |-> EmptyDict],
                           built.system.MonitoredLine, 1)
      IN  AddComponent([system |-> wired.system, error |-> wired.error],
                       "TransmissionInterfaceMap", "TransmissionInterfaceMap",
                       [name |-> "transmission_map", mapping |-> wired.mapping])

-----------------------------------------------------------------------------
(* _construct_reserves                                                     *)

\* a lookup that gives the default entry whatever the "Type" is
PlexosReserveMapDefault(ext_data) == ReserveTypes["default"]

\* lines 250-259: the reserve_types entry for the "Type" of ext_data.  The
\* property values of the model are whole numbers, whose int() is the number
\* itself and whose str() after int() is the decimal numeral.
PlexosReserveMap(ext_data) ==
    LET reserve_type == IF "Type" \in DOMAIN ext_data
                        THEN ToString(ext_data["Type"])
                        ELSE "default"
    IN  IF reserve_type \in DOMAIN ReserveTypes
        THEN ReserveTypes[reserve_type]
        ELSE ReserveTypes["default"]

ReserveStep(st, reserve, i) ==
    IF st.error # Null THEN st
    ELSE
      LET mapped_reserve == MapKeys(reserve)
          valid_fields == Restrict(mapped_reserve, ModelFields("Reserve"))
          ext_data == Restrict(mapped_reserve, DOMAIN mapped_reserve \ ModelFields("Reserve"))
      IN  IF DOMAIN ext_data # {}
          THEN AddComponent(st, "Reserve", "Reserve",
                   DictSet(DictSet(DictSet(valid_fields,
                       "type", PlexosReserveMap(ext_data).type),
                       "direction", PlexosReserveMap(ext_data).direction),
                       "ext", DictDel(ext_data, "Type")))
          ELSE AddComponent(st, "Reserve", "Reserve", valid_fields)

ConstructReserves(sys, d, data, scens) ==
    IF GetModelDataRaises(scens) THEN Raise(Running(sys), "ModelError")
    ELSE
      LET system_reserves == GetModelData(data, ClassFilter("System", "Reserve"), scens)
          built == ForEach(ReserveStep, Running(sys), Pivot(system_reserves), 1)
      IN  AddComponent(built, "ReserveMap", "ReserveMap",
                       [name |-> "contributing_generators", mapping |-> EmptyDict])

-----------------------------------------------------------------------------
(* _construct_generators                                                   *)

\* generator_fuel_map (lines 332-344): generator name to fuel name, the last
\* membership of a generator winning
GeneratorFuelMap(d) ==
    LET all == [i \in 1..Len(d.t_membership) |-> MembershipTuple(d, d.t_membership[i])]
        rows == SelectSeq(all, LAMBDA t : t.child_class = "Fuel" /\ t.parent_class = "Generator")
    IN  [g \in {rows[i].parent_name : i \in 1..Len(rows)} |->
            rows[CHOOSE i \in 1..Len(rows) :
                    /\ rows[i].parent_name = g
                    /\ \A j \in (i + 1)..Len(rows) : rows[j].parent_name # g].child_name]

\* lines 350-352: model_map.get(fuel, "") or generator_map.get(name, "")
GeneratorModelName(generator_fuel_type, generator_name) ==
    LET by_fuel == IF generator_fuel_type \in DOMAIN ModelMap
                   THEN ModelMap[generator_fuel_type] ELSE ""
    IN  IF by_fuel # "" THEN by_fuel
        ELSE IF generator_name \in DOMAIN GeneratorMap THEN GeneratorMap[generator_name]
        ELSE ""

\* lines 380-390: the entry of the prime mover map for the fuel
PrimeMoverEntry(generator_fuel_type) ==
    IF generator_fuel_type \in DOMAIN PrimeMoverMap
    THEN PrimeMoverMap[generator_fuel_type]
    ELSE PrimeMoverMap["default"]

\* lines 392-394: `match model_map: case HydroPumpedStorage():` is a class
\* pattern, which matches instances of HydroPumpedStorage; the subject
\* model_map is the class object itself, so the pattern never matches
MatchesHydroPumpedStorage(model_map) == FALSE

\* lines 412-414 (and 518-520): `available > 1` on a Quantity that carries a
\* unit raises pint's DimensionalityError
ClampRaises(valid_fields) ==
    /\ "available" \in DOMAIN valid_fields
    /\ valid_fields["available"].mag # 0
    /\ valid_fields["available"].unit # Null

\* an `available` that is left as it is
NoClamp(valid_fields) == valid_fields

\* lines 412-414 (and 518-520): a truthy available above 1 becomes 1
ClampAvailable(valid_fields) ==
    IF /\ "available" \in DOMAIN valid_fields
       /\ valid_fields["available"].mag # 0
       /\ valid_fields["available"].mag > 1
    THEN DictSet(valid_fields, "available", Quantity(1, Null))
    ELSE valid_fields

\* the rows of one name, in table order: a group of df.group_by("name")
Group(rows, nm) == SelectSeq(rows, LAMBDA r : r.name = nm)

GeneratorStep(st, generator_name, i, system_generators, generator_fuel_map) ==
    IF st.error # Null THEN st
    ELSE
      LET generator_fuel_type == IF generator_name \in DOMAIN generator_fuel_map
                                 THEN generator_fuel_map[generator_name] ELSE Null
          model_map == GeneratorModelName(generator_fuel_type, generator_name)
          parsed == ParsePropertyData(PropertyRecords(Group(system_generators, generator_name)))
          named == DictSet(parsed.mapped_properties, "name", generator_name)
          with_pm == DictSet(named, "prime_mover_type",
                             IF MatchesHydroPumpedStorage(model_map) THEN "PS"
                             ELSE PrimeMoverEntry(generator_fuel_type).type)
          with_fuel == DictSet(with_pm, "fuel", PrimeMoverEntry(generator_fuel_type).fuel)
          mapped_records ==
              IF "base_power" \notin DOMAIN with_fuel /\ "pump_load" \in DOMAIN with_fuel
              THEN DictSet(with_fuel, "base_power", with_fuel["pump_load"])
              ELSE with_fuel
          split == ValidFields(mapped_records, model_map)
          valid_fields == ClampAvailable(split)
      IN  IF model_map \notin GeneratorModels THEN st
          ELSE IF parsed.error # Null THEN Raise(st, parsed.error)
          ELSE IF ClampRaises(split) THEN Raise(st, "DimensionalityError")
          ELSE IF ~ (RequiredFields(model_map) \subseteq DOMAIN valid_fields) THEN st
          ELSE AddComponent(st, "Generator", model_map, valid_fields)

\* order is the order in which group_by yields the generator names
ConstructGenerators(sys, d, data, scens, order) ==
    IF GetModelDataRaises(scens) THEN Raise(Running(sys), "ModelError")
    ELSE
      LET system_generators == GetModelData(data, ClassFilter("System", "Generator"), scens)
          generator_fuel_map == GeneratorFuelMap(d)
      IN  ForEach(LAMBDA st, nm, i :
                      GeneratorStep(st, nm, i, system_generators, generator_fuel_map),
                  Running(sys), order, 1)

-----------------------------------------------------------------------------
(* _construct_batteries                                                    *)

\* a zero-capacity test that never skips
ZeroCapacityNever(mapped_records) == FALSE

\* line 531: mapped_records["storage_capacity"] == 0
ZeroCapacity(mapped_records) == mapped_records["storage_capacity"].mag = 0

BatteryStep(st, battery_name, i, system_batteries) ==
    IF st.error # Null THEN st
    ELSE
      LET parsed == ParsePropertyData(PropertyRecords(Group(system_batteries, battery_name)))
          named == DictSet(parsed.mapped_properties, "name", battery_name)
          with_power == IF "Max Power" \in DOMAIN named
                        THEN DictSet(named, "base_power", named["Max Power"]) ELSE named
          with_capacity == IF "Capacity" \in DOMAIN with_power
                           THEN DictSet(with_power, "storage_capacity", with_power["Capacity"])
                           ELSE with_power
          mapped_records == DictSet(with_capacity, "prime_mover_type", "BA")
          split == ValidFields(mapped_records, "GenericBattery")
          valid_fields == ClampAvailable(split)
      IN  IF parsed.error # Null THEN Raise(st, parsed.error)
          ELSE IF ClampRaises(split) THEN Raise(st, "DimensionalityError")
          ELSE IF ~ (RequiredFields("GenericBattery") \subseteq DOMAIN valid_fields) THEN st
          ELSE IF "storage_capacity" \notin DOMAIN mapped_records THEN Raise(st, "KeyError")
          ELSE IF ZeroCapacity(mapped_records) THEN st
          ELSE AddComponent(st, "GenericBattery", "GenericBattery", valid_fields)

ConstructBatteries(sys, d, data, scens, order) ==
    IF GetModelDataRaises(scens) THEN Raise(Running(sys), "ModelError")
    ELSE
      LET system_batteries == GetModelData(data, ClassFilter("System", "Battery"), scens)
      IN  ForEach(LAMBDA st, nm, i : BatteryStep(st, nm, i, system_batteries),
                  Running(sys), order, 1)

-----------------------------------------------------------------------------
(* Relationship wiring: _add_buses_to_generators, _add_buses_to_batteries, *)
(* _add_generator_reserves, _add_battery_reserves.  container is the class *)
(* get_components is asked for, object_class and collection the arguments  *)
(* of get_memberships.                                                     *)

\* the inner loop of lines 437-447 (548-558) for component i of container.
\* The warning of the except branch formats buses[3], an index into the
\* list of the component's memberships: IndexError with fewer than four.
BusMembershipStep(st, bus, k, container, i, buses) ==
    IF st.error # Null THEN st
    ELSE IF ~HasComponent(st.system, "ACBus", bus.child_name)
    THEN IF Len(buses) < 4 THEN Raise(st, "IndexError") ELSE st
    ELSE [st EXCEPT !.system[container][i] = DictSet(@, "bus", bus.child_name)]

BusWiringStep(st, component, i, container, memberships) ==
    IF st.error # Null THEN st
    ELSE
      LET buses == SelectSeq(memberships, LAMBDA m : m.parent_name = component["name"])
      IN  ForEach(LAMBDA s2, bus, k : BusMembershipStep(s2, bus, k, container, i, buses),
                  st, buses, 1)

AddBuses(sys, d, container, object_class, collection) ==
    LET names == ComponentNames(sys, container)
        memberships == GetMemberships(d, Range(names), object_class, collection)
    IN  ForEach(LAMBDA st, component, i :
                    BusWiringStep(st, component, i, container, memberships),
                Running(sys), sys[container], 1)

\* the inner loop of lines 463-473 (574-584)
ReserveMembershipStep(st, reserve, k, component_name) ==
    IF st.error # Null THEN st
    ELSE IF ~HasComponent(st.system, "Reserve", reserve.parent_name) THEN st
    ELSE [st EXCEPT !.system.ReserveMap[1] =
             DictSet(@, "mapping",
                     MappingAppend(@["mapping"], reserve.parent_name, component_name))]

\* an outer loop that hands every component all the memberships
ReserveWiringStepUnfiltered(st, component, i, memberships) ==
    IF st.error # Null THEN st
    ELSE ForEach(LAMBDA s2, reserve, k :
                     ReserveMembershipStep(s2, reserve, k, component["name"]),
                 st, memberships, 1)

\* lines 459-473 (570-584): the memberships whose child is the component
ReserveWiringStep(st, component, i, memberships) ==
    IF st.error # Null THEN st
    ELSE
      LET reserves == SelectSeq(memberships, LAMBDA m : m.child_name = component["name"])
      IN  ForEach(LAMBDA s2, reserve, k :
                      ReserveMembershipStep(s2, reserve, k, component["name"]),
                  st, reserves, 1)

AddReserves(sys, d, container, object_class, collection) ==
    IF ~HasComponent(sys, "ReserveMap", "contributing_generators")
    THEN Raise(Running(sys), "ISNotStored")
    ELSE
      LET names == ComponentNames(sys, container)
          memberships == GetMemberships(d, Range(names), object_class, collection)
      IN  ForEach(LAMBDA st, component, i : ReserveWiringStep(st, component, i, memberships),
                  Running(sys), sys[container], 1)

-----------------------------------------------------------------------------
(* _csv_file_handler and _construct_load_profiles.  A file of the run      *)
(* folder is [datetime_columns, rows]: whether it has the year, month and  *)
(* day columns, and its rows [year, month, day, values], values being the  *)
(* row's cells of the remaining (hour) columns in column order.            *)

\* lines 814-821: the path below the run folder that a text names (a
\* backslash path is read as a Windows path)
RelativePath(fpath_text) ==
    CASE fpath_text = "ts\\a.csv" -> "ts/a.csv"
      [] OTHER -> fpath_text

RECURSIVE Flatten(_)
Flatten(ss) == IF ss = <<>> THEN <<>> ELSE Head(ss) \o Flatten(Tail(ss))

\* data_file.melt(id_vars=DATETIME_COLUMNS, variable_name="hour")["value"]:
\* the hour columns one after the other, each over all rows
Melt(rows) ==
    IF rows = <<>> THEN <<>>
    ELSE Flatten([h \in 1..Len(rows[1].values) |->
                     [i \in 1..Len(rows) |-> rows[i].values[h]]])

\* a handler that lets FileNotFoundError escape
MissingFileRaises == [error |-> "FileNotFoundError", series |-> <<>>]

\* lines 826-828: FileNotFoundError is caught, the handler returns None
MissingFile == [error |-> Null, series |-> <<>>]

\* _csv_file_handler: [error, series], series being <<>> when the handler
\* returns None and <<ts>> when it returns the SingleTimeSeries ts; uuid names
\* the SingleTimeSeries object that is created
CsvFileHandler(property_name, property_data, files, uuid) ==
    LET relative_path == RelativePath(property_data[1].text)
        data_file == files[relative_path]
        of_year == SelectSeq(data_file.rows, LAMBDA r : r.year = WeatherYear)
    IN  IF relative_path \notin DOMAIN files THEN MissingFile
        ELSE IF ~data_file.datetime_columns THEN [error |-> Null, series |-> <<>>]
        ELSE IF of_year = <<>> THEN [error |-> "AssertionError", series |-> <<>>]
        ELSE [error |-> Null,
              series |-> <<[uuid |-> uuid,
                            variable_name |-> property_name,
                            resolution |-> "1h",
                            initial_time |-> <<of_year[1].year, of_year[1].month,
                                               of_year[1].day>>,
                            data |-> Melt(of_year)]>>]

\* np.max
Max(s) == CHOOSE x \in Range(s) : \A y \in Range(s) : y <= x

\* lines 744-753, for one membership of the region
LoadStep(st, membership, k, ts, count) ==
    IF st.error # Null THEN st
    ELSE IF ~HasComponent(st.system, "ACBus", membership.parent_name)
    THEN Raise(st, "ISNotStored")
    ELSE
      LET added == AddComponent(st, "PowerLoad", "PowerLoad",
                       [name |-> membership.parent_name,
                        bus |-> membership.parent_name,
                        max_active_power |-> [max_load |-> Max(ts.data), buses |-> count,
                                              unit |-> "MW"]])
      IN  IF added.error # Null THEN added
          ELSE [added EXCEPT !.system.time_series =
                   Append(@, [component |-> membership.parent_name, series |-> ts,
                              solve_year |-> WeatherYear])]

\* lines 734-753, for one region
LoadProfileStep(st, region, i, regions, d, files) ==
    IF st.error # Null THEN st
    ELSE
      LET handled == CsvFileHandler("max_active_power", Group(regions, region), files, region)
          bus_region_membership == GetMemberships(d, {region}, "Region", "NodesRegion")
      IN  IF handled.error # Null THEN Raise(st, handled.error)
          ELSE IF handled.series = <<>> THEN st
          ELSE ForEach(LAMBDA s2, m, k :
                           LoadStep(s2, m, k, handled.series[1], Len(bus_region_membership)),
                       st, bus_region_membership, 1)

\* the rows _construct_load_profiles groups: those with a text
RegionsWithText(data, scens) ==
    SelectSeq(GetModelData(data, ClassFilter("System", "Region"), scens),
              LAMBDA r : r.text # Null)

\* order is the order in which group_by yields the region names
ConstructLoadProfiles(sys, d, data, scens, files, order) ==
    IF GetModelDataRaises(scens) THEN Raise(Running(sys), "ModelError")
    ELSE ForEach(LAMBDA st, region, i :
                     LoadProfileStep(st, region, i, RegionsWithText(data, scens), d, files),
                 Running(sys), order, 1)

-----------------------------------------------------------------------------
(* Values the variables hold while the operation they belong to has not    *)
(* run.                                                                    *)

NoFilter == ClassFilter(Null, Null)

EmptyDb == [t_object |-> {}, t_membership |-> <<>>, object_data |-> <<>>]

EmptySystem ==
    [LoadZone |-> <<>>, ACBus |-> <<>>, MonitoredLine |-> <<>>,
     TransmissionInterface |-> <<>>, Reserve |-> <<>>, Generator |-> <<>>,
     GenericBattery |-> <<>>, PowerLoad |-> <<>>,
     ReserveMap |-> <<>>, TransmissionInterfaceMap |-> <<>>, time_series |-> <<>>]

-----------------------------------------------------------------------------
(* The aggregator on its own: every record list of at most MaxRecords      *)
(* records over two properties (one the property map renames, one it       *)
(* leaves), bands 1..MaxBand and three unit tokens.  The value of the i-th *)
(* record is i, so that a field's value tells which record wrote it.       *)

AggProperties == {"Units", "Heat Rate"}

AggUnits == {"-", "MW", "bogus"}

AggShapes == [band : 1..MaxBand, property_name : AggProperties, property_unit : AggUnits]

AggRecordList(f) ==
    [i \in DOMAIN f |->
        [band |-> f[i].band, property_name |-> f[i].property_name,
         property_value |-> i, property_unit |-> f[i].property_unit]]

InitAgg ==
    /\ \E n \in 0..MaxRecords : \E f \in [1..n -> AggShapes] :
          record_data = AggRecordList(f)
    /\ mapped_properties = EmptyDict
    /\ multi_band_properties = {}
    /\ pc = "records"
    /\ outcome = "ok"
    /\ db = EmptyDb
    /\ run_files = EmptyDict
    /\ model_name = Null
    /\ plexos_data = <<>>
    /\ scenarios = <<>>
    /\ system = EmptySystem
    /\ data_filter = NoFilter
    /\ result = <<>>

\* a call of _parse_property_data(record_data)
ParsePropertyDataCall ==
    /\ pc = "records"
    /\ LET r == ParsePropertyData(record_data)
       IN  /\ mapped_properties' = r.mapped_properties
           /\ multi_band_properties' = r.multi_band_properties
           /\ outcome' = IF r.error = Null THEN "ok" ELSE r.error
    /\ pc' = "aggregated"
    /\ UNCHANGED <<db, run_files, model_name, plexos_data, scenarios, system,
                   data_filter, result, record_data>>

NextAgg == ParsePropertyDataCall

SpecAgg == InitAgg /\ [][NextAgg]_vars

-----------------------------------------------------------------------------
(* Scenario resolution on its own: every property table of at most MaxRows *)
(* rows over three objects of two classes, two properties (and the null    *)
(* property of an object without data) and the scenario tags S1, S2 and    *)
(* null; a store whose model m1 has the scenarios S1, or S1 and S2; the    *)
(* model names m1 and mX (a name the store does not hold).                 *)

ResolveObjects ==
    {[name |-> "g1", object_id |-> 31, class |-> "Generator"],
     [name |-> "g2", object_id |-> 32, class |-> "Generator"],
     [name |-> "b1", object_id |-> 41, class |-> "Battery"]}

ResolveShapes ==
    [object : ResolveObjects, property_name : {"Units", "Max Capacity"},
     scenario : {Null, "S1", "S2"}]
    \cup [object : ResolveObjects, property_name : {Null}, scenario : {Null}]

ResolveRow(shape, i) ==
    Row("System", 1, shape.object.class, "-", shape.object.object_id, shape.object.name,
        shape.property_name,
        IF shape.property_name = Null THEN Null ELSE "-",
        IF shape.property_name = Null THEN NullVal ELSE i,
        1, Null, shape.scenario)

ResolveTable(f) == [i \in DOMAIN f |-> ResolveRow(f[i], i)]

\* the objects every store of the model holds
CoreObjects ==
    {[object_id |-> 1, name |-> "System", class |-> "System"],
     [object_id |-> 21, name |-> "m1", class |-> "Model"],
     [object_id |-> 11, name |-> "S1", class |-> "Scenario"],
     [object_id |-> 12, name |-> "S2", class |-> "Scenario"]}

Membership(parent, child, collection) ==
    [parent_object_id |-> parent, child_object_id |-> child, collection |-> collection]

\* a store holding the model m1 with the given scenarios and a property table
ModelDb(model_scenarios, table) ==
    [t_object |-> CoreObjects,
     t_membership |->
        [i \in 1..Len(model_scenarios) |-> Membership(21, model_scenarios[i], "ModelScenarios")],
     object_data |-> table]

ResolveFilters == {ClassFilter("System", "Generator"), ClassFilter("System", "Battery")}

InitResolve ==
    /\ \E n \in 0..MaxRows : \E f \in [1..n -> ResolveShapes] :
          db \in {ModelDb(<<11>>, ResolveTable(f)), ModelDb(<<11, 12>>, ResolveTable(f))}
    /\ model_name \in {"m1", "mX"}
    /\ plexos_data = <<>>
    /\ run_files = EmptyDict
    /\ scenarios = <<>>
    /\ system = EmptySystem
    /\ pc = "new"
    /\ outcome = "ok"
    /\ data_filter = NoFilter
    /\ result = <<>>
    /\ record_data = <<>>
    /\ mapped_properties = EmptyDict
    /\ multi_band_properties = {}

\* __init__ (line 116): self._process_scenarios(model_name=model_name)
ProcessScenarios ==
    /\ pc = "new"
    /\ outcome = "ok"
    /\ outcome' = ProcessScenariosOutcome(db, model_name)
    /\ scenarios' = ProcessScenariosValue(db, model_name)
    /\ pc' = IF outcome' = "ok" THEN "constructed" ELSE pc
    /\ UNCHANGED <<db, run_files, model_name, plexos_data, system, data_filter, result,
                   record_data, mapped_properties, multi_band_properties>>

\* build_system, lines 124-125: the object query and _polarize_data
PolarizeData ==
    /\ pc = "constructed"
    /\ outcome = "ok"
    /\ plexos_data' = db.object_data
    /\ pc' = "load_zones"
    /\ UNCHANGED <<db, run_files, model_name, scenarios, system, outcome, data_filter,
                   result, record_data, mapped_properties, multi_band_properties>>

\* a call of _get_model_data(data_filter) once the table is loaded
GetModelDataCall ==
    /\ pc = "load_zones"
    /\ data_filter' \in ResolveFilters
    /\ IF GetModelDataRaises(scenarios)
       THEN /\ outcome' = "ModelError"
            /\ result' = <<>>
       ELSE /\ outcome' = "ok"
            /\ result' = GetModelData(plexos_data, data_filter', scenarios)
    /\ pc' = "resolved"
    /\ UNCHANGED <<db, run_files, model_name, plexos_data, scenarios, system,
                   record_data, mapped_properties, multi_band_properties>>

NextResolve == ProcessScenarios \/ PolarizeData \/ GetModelDataCall

SpecResolve == InitResolve /\ [][NextResolve]_vars


-----------------------------------------------------------------------------
(* The whole parser: __init__ and build_system on an export.  An export is *)
(* the base export (two regions with one node each, one generator with a   *)
(* recognised fuel and one reserve the generator contributes to) extended  *)
(* by at most MaxPick of the blocks below, each a list of objects, table   *)
(* rows and membership rows.  Objects are in the category "-" except node  *)
(* n2, which has none, and interface i3, which is in the category "Tie".   *)

Object(oid, nm, cls) == [object_id |-> oid, name |-> nm, class |-> cls]

\* a table row of a child object of the system in category cat, without text
\* or scenario
PropIn(cat, cls, oid, nm, prop, unit, val) ==
    Row("System", 1, cls, cat, oid, nm, prop, unit, val, 1, Null, Null)

\* the same in the category "-", the one an object has when none is chosen
Prop(cls, oid, nm, prop, unit, val) == PropIn("-", cls, oid, nm, prop, unit, val)

Block(objects, rows, memberships) ==
    [objects |-> objects, rows |-> rows, memberships |-> memberships]

BaseExport ==
    Block({Object(51, "r1", "Region"), Object(52, "r2", "Region"),
           Object(61, "n1", "Node"), Object(62, "n2", "Node"),
           Object(31, "g1", "Generator"), Object(95, "gas", "Fuel"),
           Object(91, "res1", "Reserve")},
          <<Prop("Region", 51, "r1", "Load Scalar", "-", 1),
            Prop("Region", 52, "r2", "Load Scalar", "-", 1),
            Prop("Node", 61, "n1", "Voltage", "kV", 115),
            PropIn(Null, "Node", 62, "n2", Null, Null, NullVal),
            Row("Node", 61, "Region", "-", 51, "r1", Null, Null, NullVal, 1, Null, Null),
            Row("Node", 62, "Region", "-", 52, "r2", Null, Null, NullVal, 1, Null, Null),
            Prop("Generator", 31, "g1", "Max Capacity", "MW", 100),
            Prop("Reserve", 91, "res1", "Min Provision", "MW", 10)>>,
          <<Membership(21, 11, "ModelScenarios"),
            Membership(61, 51, "NodesRegion"), Membership(62, 52, "NodesRegion"),
            Membership(31, 95, "GeneratorFuels"), Membership(31, 61, "GeneratorNodes"),
            Membership(91, 31, "ReserveGenerators")>>)

\* the twelve rows of a monthly time-slice property of region r2: month m
\* carries the value 10 * m
MonthlyRows ==
    [m \in 1..12 |->
        Row("System", 1, "Region", "-", 52, "r2", "Load", "MW", 10 * m, 1,
            "M" \o ToString(m), Null)]

Blocks ==
    << \* 1-3: a Units record of generator g1
       Block({}, <<Prop("Generator", 31, "g1", "Units", "-", 3)>>, <<>>),
       Block({}, <<Prop("Generator", 31, "g1", "Units", "-", 1)>>, <<>>),
       Block({}, <<Prop("Generator", 31, "g1", "Units", "-", 0)>>, <<>>),
       \* 4, 5: Max Capacity of g1 under the active scenario S1, the inactive S2
       Block({}, <<Row("System", 1, "Generator", "-", 31, "g1", "Max Capacity", "MW", 200, 1,
                       Null, "S1")>>, <<>>),
       Block({}, <<Row("System", 1, "Generator", "-", 31, "g1", "Max Capacity", "MW", 300, 1,
                       Null, "S2")>>, <<>>),
       \* 6: generator g2 without fuel (the name table knows g2)
       Block({Object(32, "g2", "Generator")},
             <<Prop("Generator", 32, "g2", "Max Capacity", "MW", 20)>>,
             <<Membership(32, 62, "GeneratorNodes"), Membership(91, 32, "ReserveGenerators")>>),
       \* 7: pumped-storage generator g3, Pump Load only
       Block({Object(33, "g3", "Generator"), Object(96, "water", "Fuel")},
             <<Prop("Generator", 33, "g3", "Pump Load", "MW", 30)>>,
             <<Membership(33, 96, "GeneratorFuels"), Membership(33, 61, "GeneratorNodes")>>),
       \* 8: generator g4 whose fuel maps to no model class (the name table knows g4)
       Block({Object(34, "g4", "Generator"), Object(97, "coal", "Fuel")},
             <<Prop("Generator", 34, "g4", "Max Capacity", "MW", 40)>>,
             <<Membership(34, 97, "GeneratorFuels"), Membership(91, 34, "ReserveGenerators")>>),
       \* 9: battery b1 with zero Capacity
       Block({Object(41, "b1", "Battery")},
             <<Prop("Battery", 41, "b1", "Max Power", "MW", 5),
               Prop("Battery", 41, "b1", "Capacity", "MWh", 0)>>,
             <<Membership(41, 61, "BatteryNodes"), Membership(91, 41, "ReserveBatteries")>>),
       \* 10: battery b2
       Block({Object(42, "b2", "Battery")},
             <<Prop("Battery", 42, "b2", "Max Power", "MW", 10),
               Prop("Battery", 42, "b2", "Capacity", "MWh", 40),
               Prop("Battery", 42, "b2", "Units", "-", 2)>>,
             <<Membership(42, 62, "BatteryNodes"), Membership(91, 42, "ReserveBatteries")>>),
       \* 11: the load of region r1 in a file of the run folder
       Block({}, <<Row("System", 1, "Region", "-", 51, "r1", "Load", "MW", 0, 1,
                       "ts\\a.csv", Null)>>, <<>>),
       \* 12: the load of region r2 in a file that does not exist
       Block({}, <<Row("System", 1, "Region", "-", 52, "r2", "Load", "MW", 0, 1,
                       "missing.csv", Null)>>, <<>>),
       \* 13: the load of region r2 as a monthly time-slice set
       Block({}, MonthlyRows, <<>>),
       \* 14: the load of region r1 in a file without rows of the weather year
       Block({}, <<Row("System", 1, "Region", "-", 51, "r1", "Load", "MW", 0, 1,
                       "old.csv", Null)>>, <<>>),
       \* 15: the load of region r2 in a file without date columns
       Block({}, <<Row("System", 1, "Region", "-", 52, "r2", "Load", "MW", 0, 1,
                       "nodate.csv", Null)>>, <<>>),
       \* 16: line l1 from n1 to n2, monitored by interface i1
       Block({Object(71, "l1", "Line"), Object(81, "i1", "Interface")},
             <<Prop("Line", 71, "l1", "Max Flow", "MW", 50),
               Prop("Interface", 81, "i1", "Flow Limit", "MW", 60)>>,
             <<Membership(71, 61, "LineNodeFrom"), Membership(71, 62, "LineNodeTo"),
               Membership(81, 71, "InterfaceLines")>>),
       \* 17: g1 contributes to reserve res2, which has no rows
       Block({Object(92, "res2", "Reserve")}, <<>>,
             <<Membership(92, 31, "ReserveGenerators")>>),
       \* 18: g1 is connected to node n3, which has no rows
       Block({Object(63, "n3", "Node")}, <<>>,
             <<Membership(31, 63, "GeneratorNodes")>>),
       \* 19: the type code of reserve res1
       Block({}, <<Prop("Reserve", 91, "res1", "Type", "-", 2)>>, <<>>),
       \* 20: a second object named like the model
       Block({Object(13, "m1", "Scenario")}, <<>>, <<>>),
       \* 21: a model without scenarios
       Block({Object(22, "m0", "Model")}, <<>>, <<>>),
       \* 22: line l2 without end nodes, followed by line l3 from n1 to n2
       Block({Object(72, "l2", "Line"), Object(73, "l3", "Line")},
             <<Prop("Line", 72, "l2", "Max Flow", "MW", 70),
               Prop("Line", 73, "l3", "Max Flow", "MW", 80)>>,
             <<Membership(73, 61, "LineNodeFrom"), Membership(73, 62, "LineNodeTo")>>),
       \* 23: a type code of reserve res1 that the reserve types do not list
       Block({}, <<Prop("Reserve", 91, "res1", "Type", "-", 7)>>, <<>>),
       \* 24: node n4, a second node of region r1
       Block({Object(64, "n4", "Node")},
             <<Prop("Node", 64, "n4", Null, Null, NullVal),
               Row("Node", 64, "Region", "-", 51, "r1", Null, Null, NullVal, 1, Null, Null)>>,
             <<Membership(64, 51, "NodesRegion")>>),
       \* 25: line l4 monitored by the interfaces i2 and i3; line l5 monitored
       \* by interface i4, which has no rows, and by i2
       Block({Object(74, "l4", "Line"), Object(75, "l5", "Line"),
              Object(82, "i2", "Interface"), Object(83, "i3", "Interface"),
              Object(84, "i4", "Interface")},
             <<Prop("Line", 74, "l4", "Max Flow", "MW", 50),
               Prop("Line", 75, "l5", "Max Flow", "MW", 50),
               Prop("Interface", 82, "i2", "Flow Limit", "MW", 60),
               PropIn("Tie", "Interface", 83, "i3", "Flow Limit", "MW", 60)>>,
             <<Membership(74, 61, "LineNodeFrom"), Membership(74, 62, "LineNodeTo"),
               Membership(75, 61, "LineNodeFrom"), Membership(75, 62, "LineNodeTo"),
               Membership(82, 74, "InterfaceLines"), Membership(83, 74, "InterfaceLines"),
               Membership(84, 75, "InterfaceLines"), Membership(82, 75, "InterfaceLines")>>) >>

\* the files of the run folder
RunFiles ==
    [f \in {"ts/a.csv", "old.csv", "nodate.csv"} |->
        CASE f = "ts/a.csv" ->
                [datetime_columns |-> TRUE,
                 rows |-> <<[year |-> 2006, month |-> 12, day |-> 31, values |-> <<9, 9>>],
                            [year |-> 2007, month |-> 1, day |-> 1, values |-> <<3, 5>>],
                            [year |-> 2007, month |-> 1, day |-> 2, values |-> <<4, 2>>]>>]
          [] f = "old.csv" ->
                [datetime_columns |-> TRUE,
                 rows |-> <<[year |-> 2006, month |-> 1, day |-> 1, values |-> <<1, 1>>]>>]
          [] f = "nodate.csv" ->
                [datetime_columns |-> FALSE, rows |-> <<>>]]

RECURSIVE ConcatBlocks(_, _)
\* the union of the blocks picked (a set of block numbers), in block order
ConcatBlocks(acc, picked) ==
    IF picked = {} THEN acc
    ELSE LET b == CHOOSE x \in picked : \A y \in picked : x <= y
         IN  ConcatBlocks(Block(acc.objects \cup Blocks[b].objects,
                                acc.rows \o Blocks[b].rows,
                                acc.memberships \o Blocks[b].memberships),
                          picked \ {b})

Export(picked) ==
    LET all == ConcatBlocks(BaseExport, picked)
    IN  [t_object |-> CoreObjects \cup all.objects,
         t_membership |-> all.memberships,
         object_data |-> all.rows]

\* the invariant of the property table: no two rows hold a value for the
\* same object below the same parent, property, band, scenario and text
UniqueKeys(rows) ==
    \A i, j \in 1..Len(rows) :
        (/\ rows[i].parent_class = rows[j].parent_class
         /\ rows[i].parent_object_id = rows[j].parent_object_id
         /\ rows[i].child_class = rows[j].child_class
         /\ rows[i].name = rows[j].name
         /\ rows[i].property_name = rows[j].property_name
         /\ rows[i].band = rows[j].band
         /\ rows[i].scenario = rows[j].scenario
         /\ rows[i].text = rows[j].text) => i = j

Init ==
    /\ \E picked \in SUBSET (1..Len(Blocks)) :
          /\ Cardinality(picked) <= MaxPick
          /\ UniqueKeys(Export(picked).object_data)
          /\ db = Export(picked)
    /\ model_name \in {"m1", "m0", "mX", Null}
    /\ run_files = RunFiles
    /\ plexos_data = <<>>
    /\ scenarios = <<>>
    /\ system = EmptySystem
    /\ pc = "new"
    /\ outcome = "ok"
    /\ data_filter = NoFilter
    /\ result = <<>>
    /\ record_data = <<>>
    /\ mapped_properties = EmptyDict
    /\ multi_band_properties = {}

\* a build that goes from the load zones to the lines without the buses
StageSkippingBuses(here, next, r) ==
    /\ pc = here
    /\ outcome = "ok"
    /\ system' = r.system
    /\ outcome' = IF r.error = Null THEN "ok" ELSE r.error
    /\ pc' = IF r.error # Null THEN here ELSE IF next = "buses" THEN "branches" ELSE next
    /\ UNCHANGED <<db, run_files, model_name, plexos_data, scenarios, data_filter,
                   result, record_data, mapped_properties, multi_band_properties>>

\* a stage of build_system: it runs at position here, leaves the container
\* and the exception of its result r, and hands over to position next
Stage(here, next, r) ==
    /\ pc = here
    /\ outcome = "ok"
    /\ system' = r.system
    /\ outcome' = IF r.error = Null THEN "ok" ELSE r.error
    /\ pc' = IF r.error = Null THEN next ELSE here
    /\ UNCHANGED <<db, run_files, model_name, plexos_data, scenarios, data_filter,
                   result, record_data, mapped_properties, multi_band_properties>>

ConstructLoadZonesStage ==
    /\ pc = "load_zones"
    /\ Stage("load_zones", "buses", ConstructLoadZones(system, db, plexos_data, scenarios))

ConstructBusesStage ==
    /\ pc = "buses"
    /\ Stage("buses", "branches", ConstructBuses(system, db, plexos_data, scenarios))

ConstructBranchesStage ==
    /\ pc = "branches"
    /\ Stage("branches", "interfaces", ConstructBranches(system, db, plexos_data, scenarios))

ConstructInterfacesStage ==
    /\ pc = "interfaces"
    /\ Stage("interfaces", "reserves", ConstructInterfaces(system, db, plexos_data, scenarios))

ConstructReservesStage ==
    /\ pc = "reserves"
    /\ Stage("reserves", "generators", ConstructReserves(system, db, plexos_data, scenarios))

\* the names group_by("name") yields for the rows a class filter resolves to
GroupNames(flt) ==
    IF GetModelDataRaises(scenarios) THEN {}
    ELSE Range(Names(GetModelData(plexos_data, flt, scenarios)))

ConstructGeneratorsStage ==
    \E order \in Orders(GroupNames(ClassFilter("System", "Generator"))) :
        Stage("generators", "generator_buses",
              ConstructGenerators(system, db, plexos_data, scenarios, order))

AddBusesToGeneratorsStage ==
    /\ pc = "generator_buses"
    /\ Stage("generator_buses", "generator_reserves",
          AddBuses(system, db, "Generator", "Generator", "GeneratorNodes"))

AddGeneratorReservesStage ==
    /\ pc = "generator_reserves"
    /\ Stage("generator_reserves", "batteries",
          AddReserves(system, db, "Generator", "Generator", "ReserveGenerators"))

ConstructBatteriesStage ==
    \E order \in Orders(GroupNames(ClassFilter("System", "Battery"))) :
        Stage("batteries", "battery_buses",
              ConstructBatteries(system, db, plexos_data, scenarios, order))

AddBusesToBatteriesStage ==
    /\ pc = "battery_buses"
    /\ Stage("battery_buses", "battery_reserves",
          AddBuses(system, db, "GenericBattery", "Battery", "BatteryNodes"))

AddBatteryReservesStage ==
    /\ pc = "battery_reserves"
    /\ Stage("battery_reserves", "load_profiles",
          AddReserves(system, db, "GenericBattery", "Battery", "ReserveBatteries"))

ConstructLoadProfilesStage ==
    \E order \in Orders(IF GetModelDataRaises(scenarios) THEN {}
                        ELSE Range(Names(RegionsWithText(plexos_data, scenarios)))) :
        Stage("load_profiles", "done",
              ConstructLoadProfiles(system, db, plexos_data, scenarios, run_files, order))

Next ==
    \/ ProcessScenarios
    \/ PolarizeData
    \/ ConstructLoadZonesStage
    \/ ConstructBusesStage
    \/ ConstructBranchesStage
    \/ ConstructInterfacesStage
    \/ ConstructReservesStage
    \/ ConstructGeneratorsStage
    \/ AddBusesToGeneratorsStage
    \/ AddGeneratorReservesStage
    \/ ConstructBatteriesStage
    \/ AddBusesToBatteriesStage
    \/ AddBatteryReservesStage
    \/ ConstructLoadProfilesStage

Spec == Init /\ [][Next]_vars

-----------------------------------------------------------------------------
(* Scenario resolution: the claims checked under SpecResolve.              *)

\* the rows of the table that match the last predicate and carry no scenario
BaseCaseRows ==
    SelectSeq(plexos_data, LAMBDA r : Matches(r, data_filter) /\ r.scenario = Null)

\* some row that matches the last predicate is tagged with an active scenario
SomeActiveScenarioRow ==
    \E i \in 1..Len(plexos_data) :
        /\ Matches(plexos_data[i], data_filter)
        /\ InSeq(plexos_data[i].scenario, scenarios)

(* C2, as stated: resolving with an empty active scenario set returns      *)
(* exactly the rows that match the predicate and whose scenario is null.   *)
C2_EmptyScenarioSetGivesBaseRows ==
    (pc = "resolved" /\ scenarios = <<>>) =>
        (outcome = "ok" /\ result = BaseCaseRows)

(* C2, amended: with an empty (or unset) active scenario set               *)
(* _get_model_data raises ModelError and returns nothing; with a non-empty *)
(* active scenario set none of whose scenarios tags a row matching the     *)
(* predicate, it returns exactly the rows that match the predicate and     *)
(* whose scenario is null.                                                 *)
C2_EmptyRaisesAndNoOverrideGivesBaseRows ==
    pc = "resolved" =>
        /\ scenarios = <<>> => (outcome = "ModelError" /\ result = <<>>)
        /\ (scenarios # <<>> /\ ~SomeActiveScenarioRow) =>
               (outcome = "ok" /\ result = BaseCaseRows)

\* an empty scenario set met a table that holds base-case rows for the predicate
C2_Witness ==
    /\ pc = "resolved"
    /\ scenarios = <<>>
    /\ BaseCaseRows # <<>>
    /\ outcome = "ModelError"

\* the (name, property_name) pair of row r has a matching active-scenario row
PairOverridden(r) ==
    \E j \in 1..Len(plexos_data) :
        /\ Matches(plexos_data[j], data_filter)
        /\ InSeq(plexos_data[j].scenario, scenarios)
        /\ plexos_data[j].name = r.name
        /\ plexos_data[j].property_name = r.property_name

(* C3: with a non-empty active scenario set, every scenario-null row that  *)
(* matches the predicate and whose (name, property_name) pair has no       *)
(* active-scenario row is in the result of _get_model_data, also when      *)
(* other properties of the same entity are overridden.                     *)
C3_BaseCaseFallbackPerPair ==
    (pc = "resolved" /\ scenarios # <<>>) =>
        \A i \in 1..Len(plexos_data) :
            (/\ Matches(plexos_data[i], data_filter)
             /\ plexos_data[i].scenario = Null
             /\ ~PairOverridden(plexos_data[i]))
            => InSeq(plexos_data[i], result)

\* an entity with one property overridden and another inherited, both returned
C3_Witness ==
    /\ pc = "resolved"
    /\ outcome = "ok"
    /\ \E i, j \in 1..Len(plexos_data) :
          /\ Matches(plexos_data[i], data_filter)
          /\ Matches(plexos_data[j], data_filter)
          /\ plexos_data[i].name = plexos_data[j].name
          /\ InSeq(plexos_data[i].scenario, scenarios)
          /\ plexos_data[j].scenario = Null
          /\ plexos_data[j].property_name # Null
          /\ plexos_data[j].property_name # plexos_data[i].property_name
          /\ InSeq(plexos_data[j], result)

-----------------------------------------------------------------------------
(* The aggregator: the claims checked under SpecAgg.                       *)

\* the value the aggregator stores for record i
RecordValue(i) ==
    Quantity(record_data[i].property_value, ResolveUnit(record_data[i].property_unit))

\* the records of property p, by position
RecordsOf(p) == {i \in 1..Len(record_data) : record_data[i].property_name = p}

\* the band of the first record of property p
FirstBand(p) ==
    record_data[CHOOSE i \in RecordsOf(p) : \A j \in RecordsOf(p) : i <= j].band

\* the field that holds band b of property p
BandField(p, b) ==
    IF b = FirstBand(p) THEN PropertyMapGet(p)
    ELSE BandFieldName(PropertyMapGet(p), b)

(* C4, as stated: two records with the same property_name and different    *)
(* bands give two distinct fields, the base mapped name with the first     *)
(* record's value and {mapped_name}_{band} with the later record's value,  *)
(* whether or not the property map renames the property.                   *)
C4_TwoBandsTwoFields ==
    (pc = "aggregated" /\ outcome = "ok") =>
        \A p \in AggProperties : \A i, j \in RecordsOf(p) :
            (/\ RecordsOf(p) = {i, j}
             /\ i < j
             /\ record_data[i].band # record_data[j].band)
            => LET base == PropertyMapGet(p)
                   synthetic == BandFieldName(base, record_data[j].band)
               IN  /\ base \in DOMAIN mapped_properties
                   /\ synthetic \in DOMAIN mapped_properties
                   /\ mapped_properties[base] = RecordValue(i)
                   /\ mapped_properties[synthetic] = RecordValue(j)

(* C5, as stated: for every (property_name, band) of the record list, the  *)
(* field that holds that band (the base mapped name for the first-seen     *)
(* band, {mapped_name}_{band} for any other) equals the value of the last  *)
(* record with that property_name and band.                                *)
C5_LastWriteWinsWithinBand ==
    (pc = "aggregated" /\ outcome = "ok") =>
        \A p \in AggProperties : \A i \in RecordsOf(p) :
            (\A j \in RecordsOf(p) : record_data[j].band = record_data[i].band => j <= i)
            => /\ BandField(p, record_data[i].band) \in DOMAIN mapped_properties
               /\ mapped_properties[BandField(p, record_data[i].band)] = RecordValue(i)

-----------------------------------------------------------------------------
(* The build: the claims checked under Spec.                               *)

\* the rows of the table of one class below the system
ClassRows(cls) ==
    SelectSeq(plexos_data, LAMBDA r : Matches(r, ClassFilter("System", cls)))

\* the rows of one property of one object of a class
PropertyRows(cls, nm, prop) ==
    SelectSeq(ClassRows(cls), LAMBDA r : r.name = nm /\ r.property_name = prop)

\* the value a record contributes to a field
RowValue(r) == Quantity(r.property_value, ResolveUnit(r.property_unit))

(* C1: for every generator that is registered and every row of it that is  *)
(* tagged with an active scenario, the field the property maps to holds    *)
(* the value of the scenario row, also when a scenario-null row exists for  *)
(* the same property and band.                                             *)
C1_ScenarioRowWins ==
    \A i \in 1..Len(system.Generator) :
        \A j \in 1..Len(plexos_data) :
            LET g == system.Generator[i]
                r == plexos_data[j]
            IN  (/\ Matches(r, ClassFilter("System", "Generator"))
                 /\ r.name = g["name"]
                 /\ InSeq(r.scenario, scenarios)
                 /\ PropertyMapGet(r.property_name) \in DOMAIN g)
                => g[PropertyMapGet(r.property_name)] = RowValue(r)

(* C6: a registered generator whose Units record is greater than 1 or is 1 *)
(* has available equal to 1, and a registered generator without a Units    *)
(* record has no available field.                                          *)
C6_AvailableClampedToOne ==
    \A i \in 1..Len(system.Generator) :
        LET g == system.Generator[i]
            units == PropertyRows("Generator", g["name"], "Units")
        IN  /\ units = <<>> => "available" \notin DOMAIN g
            /\ (Len(units) = 1 /\ units[1].property_value >= 1)
               => ("available" \in DOMAIN g /\ g["available"] = Quantity(1, Null))

\* a generator with three units is registered, available being 1
C6_Witness ==
    \E i \in 1..Len(system.Generator) :
        LET g == system.Generator[i]
            units == PropertyRows("Generator", g["name"], "Units")
        IN  /\ Len(units) = 1
            /\ units[1].property_value > 1
            /\ g["available"] = Quantity(1, Null)

\* the positions after _construct_batteries has returned
AfterBatteries == {"battery_buses", "battery_reserves", "load_profiles", "done"}

\* a battery with the two required properties and a capacity above zero
SoundBattery(nm) ==
    /\ \E k \in 1..Len(PropertyRows("Battery", nm, "Capacity")) :
           PropertyRows("Battery", nm, "Capacity")[k].property_value > 0
    /\ \A k \in 1..Len(PropertyRows("Battery", nm, "Capacity")) :
           PropertyRows("Battery", nm, "Capacity")[k].property_value > 0
    /\ PropertyRows("Battery", nm, "Max Power") # <<>>

ZeroCapacityBattery(nm) ==
    /\ PropertyRows("Battery", nm, "Capacity") # <<>>
    /\ \A k \in 1..Len(PropertyRows("Battery", nm, "Capacity")) :
           PropertyRows("Battery", nm, "Capacity")[k].property_value = 0

BatteryNames == Range(Names(ClassRows("Battery")))

(* C7: a battery whose Capacity is 0 is never registered as GenericBattery, *)
(* and once _construct_batteries has returned beside such a battery, every  *)
(* battery with a capacity above zero and a Max Power is registered.        *)
C7_ZeroCapacityBatterySkipped ==
    /\ \A nm \in BatteryNames :
          ZeroCapacityBattery(nm) => ~HasComponent(system, "GenericBattery", nm)
    /\ (pc \in AfterBatteries /\ \E z \in BatteryNames : ZeroCapacityBattery(z))
       => \A nm \in BatteryNames :
              SoundBattery(nm) => HasComponent(system, "GenericBattery", nm)

\* the build is over, the battery without capacity is left out and the other
\* battery is registered
C7_Witness ==
    /\ pc = "done"
    /\ \E z \in BatteryNames :
          /\ ZeroCapacityBattery(z)
          /\ PropertyRows("Battery", z, "Max Power") # <<>>
          /\ ~HasComponent(system, "GenericBattery", z)
    /\ \E nm \in BatteryNames :
          SoundBattery(nm) /\ HasComponent(system, "GenericBattery", nm)

\* how often x occurs in the sequence s
Count(x, s) == Cardinality({k \in 1..Len(s) : s[k] = x})

\* the reserve-membership edges from reserve r to the object named nm
ReserveEdges(r, nm, collection) ==
    Cardinality({k \in 1..Len(db.t_membership) :
        LET t == MembershipTuple(db, db.t_membership[k])
        IN  /\ t.collection = collection
            /\ t.parent_class = "Reserve"
            /\ t.parent_name = r
            /\ t.child_name = nm})

\* the entry of the reserve map for reserve r
ReserveMapEntry(r) ==
    LET mapping == system.ReserveMap[1]["mapping"]
    IN  IF r \in DOMAIN mapping THEN mapping[r] ELSE <<>>

\* the edges from reserve r to the registered generator or battery named nm
RegisteredEdges(r, nm) ==
    (IF HasComponent(system, "Generator", nm)
     THEN ReserveEdges(r, nm, "ReserveGenerators") ELSE 0)
    + (IF HasComponent(system, "GenericBattery", nm)
       THEN ReserveEdges(r, nm, "ReserveBatteries") ELSE 0)

(* C8: after a build, the ReserveMap entry of every registered reserve      *)
(* holds each registered generator and battery once per membership edge to  *)
(* that reserve and no other name; one reserve linked to one generator      *)
(* gives an entry that is exactly that generator's name.                    *)
C8_ReserveMapHoldsContributors ==
    pc = "done" =>
        /\ \A i \in 1..Len(system.Reserve) :
              LET r == system.Reserve[i]["name"]
              IN  \A nm \in {o.name : o \in db.t_object} :
                      Count(nm, ReserveMapEntry(r)) = RegisteredEdges(r, nm)
        /\ db = Export({}) => ReserveMapEntry("res1") = <<"g1">>

\* a build in which a generator and a battery contribute to one reserve
C8_Witness ==
    /\ pc = "done"
    /\ \E i \in 1..Len(system.Reserve) :
          LET entry == ReserveMapEntry(system.Reserve[i]["name"])
          IN  \E g, b \in Range(entry) :
                  /\ HasComponent(system, "Generator", g)
                  /\ HasComponent(system, "GenericBattery", b)

\* the text rows of a region, in the order the load-profile builder sees them
RegionTextRows(region) == Group(RegionsWithText(plexos_data, scenarios), region)

RegionsHavingText == Range(Names(RegionsWithText(plexos_data, scenarios)))

\* the buses of a region
RegionBuses(region) ==
    {m.parent_name : m \in Range(GetMemberships(db, {region}, "Region", "NodesRegion"))}

\* the twelve rows M1..M12 are the text rows of the region
MonthlyRegion(region) ==
    /\ Len(RegionTextRows(region)) = 12
    /\ \A m \in 1..12 : \E k \in 1..12 : RegionTextRows(region)[k].text = "M" \o ToString(m)

\* the value configured for month m of a monthly region
MonthValue(region, m) ==
    LET rows == RegionTextRows(region)
    IN  rows[CHOOSE k \in 1..Len(rows) : rows[k].text = "M" \o ToString(m)].property_value

\* days of the months of the weather year (2007 is no leap year)
DaysInMonth == <<31, 28, 31, 30, 31, 30, 31, 31, 30, 31, 30, 31>>

RECURSIVE HoursBefore(_)
\* the hours of the year before month m begins
HoursBefore(m) == IF m = 1 THEN 0 ELSE HoursBefore(m - 1) + 24 * DaysInMonth[m - 1]

\* the month hour h of the year lies in, hours counted from 1
MonthOfHour(h) == CHOOSE m \in 1..12 : HoursBefore(m) < h /\ (m = 12 \/ h <= HoursBefore(m + 1))

(* C9: after a build with a twelve-month time-slice set for a region, each  *)
(* bus of the region carries a load with an hourly series over the whole    *)
(* weather year in which every hour of month m has the value of month m.    *)
C9_MonthlySlicesGiveHourlySeries ==
    pc = "done" =>
        \A region \in RegionsHavingText :
            MonthlyRegion(region) =>
                \A bus \in RegionBuses(region) :
                    /\ HasComponent(system, "PowerLoad", bus)
                    /\ \E k \in 1..Len(system.time_series) :
                          LET ts == system.time_series[k]
                          IN  /\ ts.component = bus
                              /\ Len(ts.series.data) = HoursBefore(12) + 24 * DaysInMonth[12]
                              /\ \A h \in 1..Len(ts.series.data) :
                                    ts.series.data[h] = MonthValue(region, MonthOfHour(h))

\* the file the load-profile builder reads for a region
RegionFile(region) == RelativePath(RegionTextRows(region)[1].text)

(* C10: a region row naming a CSV file that does not exist never makes the  *)
(* build raise: FileNotFoundError never leaves a stage, the load-profile    *)
(* stage fails only beside a region whose file exists, and after the build  *)
(* the buses of a region with a missing file carry no load and no series    *)
(* while the regions whose file is sound have theirs.                       *)
C10_MissingCsvIsSkipped ==
    /\ outcome # "FileNotFoundError"
    /\ (pc = "load_profiles" /\ outcome # "ok" /\ scenarios # <<>>)
       => \E region \in RegionsHavingText : RegionFile(region) \in DOMAIN run_files
    /\ pc = "done" =>
          \A region \in RegionsHavingText :
              \A bus \in RegionBuses(region) :
                  /\ RegionFile(region) \notin DOMAIN run_files
                     => /\ ~HasComponent(system, "PowerLoad", bus)
                        /\ \A k \in 1..Len(system.time_series) :
                              system.time_series[k].component # bus
                  /\ RegionFile(region) = "ts/a.csv"
                     => /\ HasComponent(system, "PowerLoad", bus)
                        /\ \E k \in 1..Len(system.time_series) :
                              system.time_series[k].component = bus

\* the build is over with one region naming a missing CSV file and left
\* without load, and another region with its load and series
C10_Witness ==
    /\ pc = "done"
    /\ outcome = "ok"
    /\ \E missing, sound \in RegionsHavingText :
          /\ RegionTextRows(missing)[1].text = "missing.csv"
          /\ RegionFile(missing) \notin DOMAIN run_files
          /\ \A bus \in RegionBuses(missing) : ~HasComponent(system, "PowerLoad", bus)
          /\ RegionFile(sound) \in DOMAIN run_files
          /\ \E bus \in RegionBuses(sound) :
                /\ HasComponent(system, "PowerLoad", bus)
                /\ \E k \in 1..Len(system.time_series) :
                      system.time_series[k].component = bus

\* the objects the model name matches
ModelMatches == IF model_name = Null THEN {} ELSE ObjectsNamed(db, model_name)

(* C11 as stated: _process_scenarios ends with ModelError when it is given *)
(* no model name, when the name matches no object and when it matches more *)
(* than one object.                                                        *)
C11_ModelErrorAlsoWhenNotFound ==
    [][(pc = "new" /\ (model_name = Null \/ Cardinality(ModelMatches) # 1))
       => outcome' = "ModelError"]_vars

(* C11: _process_scenarios ends with ModelError and leaves self.scenarios  *)
(* unset when it is given no model name and when the name matches more     *)
(* than one object; when the name matches no object it returns without     *)
(* raising and leaves self.scenarios unset.                                *)
C11_ModelErrorWhenAbsentOrAmbiguous ==
    [][pc = "new" =>
         /\ (model_name = Null \/ Cardinality(ModelMatches) > 1)
            => (outcome' = "ModelError" /\ pc' = "new" /\ scenarios' = <<>>)
         /\ (model_name # Null /\ ModelMatches = {})
            => (outcome' = "ok" /\ pc' = "constructed" /\ scenarios' = <<>>)]_vars

\* scenario resolution has ended with ModelError on an ambiguous model name
C11_Witness ==
    /\ pc = "new"
    /\ outcome = "ModelError"
    /\ Cardinality(ModelMatches) > 1

\* the model name is absent, ambiguous or not found
FatalModelName == model_name = Null \/ Cardinality(ModelMatches) # 1

(* C12: with an absent, ambiguous or unknown model name no component is    *)
(* ever registered; with an unknown name scenario resolution returns       *)
(* without raising and the build stops with ModelError in                  *)
(* _construct_load_zones, at its first _get_model_data call.               *)
C12_NoPartialGraphOnFatalModelName ==
    FatalModelName =>
        /\ system = EmptySystem
        /\ pc \in {"new", "constructed", "load_zones"}
        /\ outcome \in {"ok", "ModelError"}
        /\ (model_name = Null \/ Cardinality(ModelMatches) > 1) => pc = "new"
        /\ (model_name # Null /\ ModelMatches = {} /\ outcome = "ModelError")
           => pc = "load_zones"

\* the build of an unknown model has stopped at the first _get_model_data call
C12_Witness ==
    /\ model_name # Null
    /\ ModelMatches = {}
    /\ pc = "load_zones"
    /\ outcome = "ModelError"
    /\ plexos_data # <<>>
    /\ system = EmptySystem

\* the exceptions that constructing an entity without a required field raises
MissingFieldErrors == {"ValidationError", "StopIteration"}

\* _construct_branches has ended, by returning or by raising
BranchesEnded ==
    \/ pc \notin {"new", "constructed", "load_zones", "buses", "branches"}
    \/ pc = "branches" /\ outcome # "ok"

\* the buses a line is joined to in a collection
LineEnds(line, collection) ==
    {m.child_name : m \in {x \in Range(GetMemberships(db, {line}, "Line", collection)) :
                               x.parent_name = line}}

\* a line with a from bus and a to bus that are registered
SoundLine(line) ==
    /\ \E b \in LineEnds(line, "LineNodeFrom") : HasComponent(system, "ACBus", b)
    /\ \E b \in LineEnds(line, "LineNodeTo") : HasComponent(system, "ACBus", b)

(* C13: an entity that lacks a required field never aborts the build, and  *)
(* once the line builder has ended every line that has its from bus and to *)
(* bus is registered, also beside a line that lacks them.                  *)
C13_MissingFieldSkipsEntityOnly ==
    /\ outcome \notin MissingFieldErrors
    /\ BranchesEnded =>
          \A line \in Range(Names(ClassRows("Line"))) :
              SoundLine(line) => HasComponent(system, "MonitoredLine", line)

\* the positions of the four wiring passes
WiringStages == {"generator_buses", "generator_reserves", "battery_buses", "battery_reserves"}

\* the registered buses generator g is joined to
GeneratorBuses(g) ==
    {m.child_name : m \in {x \in Range(GetMemberships(db, {g}, "Generator", "GeneratorNodes")) :
                               x.parent_name = g /\ HasComponent(system, "ACBus", x.child_name)}}

(* C14: a wiring pass never raises, and once the bus wiring of the         *)
(* generators has ended every generator joined to a registered bus has a   *)
(* bus, also when another of its edges points to a bus that is not         *)
(* registered.                                                             *)
C14_DanglingEdgeIsIgnored ==
    /\ pc \in WiringStages => outcome = "ok"
    /\ pc \in {"generator_reserves", "batteries", "battery_buses", "battery_reserves",
               "load_profiles", "done"}
       => \A i \in 1..Len(system.Generator) :
              GeneratorBuses(system.Generator[i]["name"]) # {}
              => /\ "bus" \in DOMAIN system.Generator[i]
                 /\ system.Generator[i]["bus"] \in GeneratorBuses(system.Generator[i]["name"])

\* the positions of the parser in the order of lines 116-149
StageOrder ==
    <<"new", "constructed", "load_zones", "buses", "branches", "interfaces", "reserves",
      "generators", "generator_buses", "generator_reserves", "batteries", "battery_buses",
      "battery_reserves", "load_profiles", "done">>

StageIndex(p) == CHOOSE i \in 1..Len(StageOrder) : StageOrder[i] = p

\* the position at which the components of a container are registered
StageOf(container) ==
    CASE container = "LoadZone" -> "load_zones"
      [] container = "ACBus" -> "buses"
      [] container = "MonitoredLine" -> "branches"
      [] container \in {"TransmissionInterface", "TransmissionInterfaceMap"} -> "interfaces"
      [] container \in {"Reserve", "ReserveMap"} -> "reserves"
      [] container = "Generator" -> "generators"
      [] container = "GenericBattery" -> "batteries"
      [] container \in {"PowerLoad", "time_series"} -> "load_profiles"

\* a container holds components only once its stage has run to its end, or
\* has raised part-way
RegisteredInOrder ==
    \A container \in DOMAIN system :
        system[container] # <<>>
        => \/ StageIndex(pc) > StageIndex(StageOf(container))
           \/ pc = StageOf(container) /\ outcome # "ok"

\* every component a component refers to is registered
LookupsResolved ==
    /\ \A i \in 1..Len(system.ACBus) :
          HasComponent(system, "LoadZone", system.ACBus[i]["load_zone"])
    /\ \A i \in 1..Len(system.MonitoredLine) :
          /\ HasComponent(system, "ACBus", system.MonitoredLine[i]["from_bus"])
          /\ HasComponent(system, "ACBus", system.MonitoredLine[i]["to_bus"])
    /\ \A i \in 1..Len(system.Generator) :
          "bus" \in DOMAIN system.Generator[i]
          => HasComponent(system, "ACBus", system.Generator[i]["bus"])
    /\ \A i \in 1..Len(system.GenericBattery) :
          "bus" \in DOMAIN system.GenericBattery[i]
          => HasComponent(system, "ACBus", system.GenericBattery[i]["bus"])
    /\ \A i \in 1..Len(system.PowerLoad) :
          HasComponent(system, "ACBus", system.PowerLoad[i]["bus"])
    /\ \A i \in 1..Len(system.ReserveMap) :
          \A r \in DOMAIN system.ReserveMap[i]["mapping"] : HasComponent(system, "Reserve", r)
    /\ \A i \in 1..Len(system.TransmissionInterfaceMap) :
          \A r \in DOMAIN system.TransmissionInterfaceMap[i]["mapping"] :
              HasComponent(system, "TransmissionInterface", r)

(* C15: the parser moves through its stages in the one order load zones,   *)
(* buses, lines, interfaces, reserves, generators, generator bus wiring,   *)
(* generator reserve wiring, batteries, battery bus wiring, battery        *)
(* reserve wiring, load profiles, one stage at a time; a kind of component *)
(* is registered only by its own stage, and every component a component    *)
(* refers to is registered.                                                *)
C15_FixedBuildOrder ==
    /\ [](RegisteredInOrder /\ LookupsResolved)
    /\ [][pc' # pc => StageIndex(pc') = StageIndex(pc) + 1]_vars

\* a build has gone through every stage and registered components of the
\* kinds that refer to each other
C15_Witness ==
    /\ pc = "done"
    /\ outcome = "ok"
    /\ system.LoadZone # <<>>
    /\ system.ACBus # <<>>
    /\ system.Reserve # <<>>
    /\ \E i \in 1..Len(system.Generator) : "bus" \in DOMAIN system.Generator[i]
    /\ \E i \in 1..Len(system.GenericBattery) : "bus" \in DOMAIN system.GenericBattery[i]
    /\ system.PowerLoad # <<>>

(* C16: every row _get_model_data returns has a scenario that is null or   *)
(* is one of the active scenarios.                                         *)
C16_OnlyActiveScenarioRows ==
    (pc = "resolved" /\ outcome = "ok") =>
        \A i \in 1..Len(result) :
            result[i].scenario = Null \/ InSeq(result[i].scenario, scenarios)

(* C17: every generator registered with the class HydroPumpedStorage has   *)
(* the prime mover type PS.                                                *)
C17_PumpedStorageHasPrimeMoverPS ==
    \A i \in 1..Len(system.Generator) :
        system.Generator[i]["class"] = "HydroPumpedStorage"
        => system.Generator[i]["prime_mover_type"] = "PS"

\* the positions after _construct_generators has returned
AfterGenerators ==
    {"generator_buses", "generator_reserves", "batteries", "battery_buses",
     "battery_reserves", "load_profiles", "done"}

\* the kind the fuel table gives for the generator's fuel, "" when none
FuelKind(g) ==
    IF g \in DOMAIN GeneratorFuelMap(db) /\ GeneratorFuelMap(db)[g] \in DOMAIN ModelMap
    THEN ModelMap[GeneratorFuelMap(db)[g]] ELSE ""

\* the kind the name table gives for the generator, "" when none
NameKind(g) == IF g \in DOMAIN GeneratorMap THEN GeneratorMap[g] ELSE ""

\* the kind of C18: the fuel's when known, else the name's when known, else ""
SelectedKind(g) ==
    IF FuelKind(g) \in GeneratorModels THEN FuelKind(g)
    ELSE IF NameKind(g) \in GeneratorModels THEN NameKind(g)
    ELSE ""

(* C18: once the generator builder has returned, every generator with a    *)
(* Max Capacity or Pump Load record is registered with the kind of its     *)
(* fuel's entry when that is a known kind, otherwise with the kind of its  *)
(* name's entry, and is not registered only when neither is a known kind.  *)
C18_FuelTableFirstNameTableFallback ==
    pc \in AfterGenerators =>
        \A g \in Range(Names(ClassRows("Generator"))) :
            (PropertyRows("Generator", g, "Max Capacity") # <<>>
             \/ PropertyRows("Generator", g, "Pump Load") # <<>>)
            => IF SelectedKind(g) = ""
               THEN ~HasComponent(system, "Generator", g)
               ELSE \E i \in 1..Len(system.Generator) :
                        /\ system.Generator[i]["name"] = g
                        /\ system.Generator[i]["class"] = SelectedKind(g)

\* the reserve_types entry C19 names for a reserve: that of its "Type" code
\* when the reserve has one and the mapping lists it, else the default entry
TypeEntry(r) ==
    LET rows == PropertyRows("Reserve", r, "Type")
    IN  IF rows # <<>> /\ ToString(rows[1].property_value) \in DOMAIN ReserveTypes
        THEN ReserveTypes[ToString(rows[1].property_value)]
        ELSE ReserveTypes["default"]

(* C19: every registered reserve has the type and direction of the         *)
(* reserve_types entry its "Type" code selects, and those of the "default"  *)
(* entry when it has no "Type" or the mapping does not list the code.       *)
C19_ReserveTypeFromTypeCode ==
    \A i \in 1..Len(system.Reserve) :
        /\ system.Reserve[i]["type"] = TypeEntry(system.Reserve[i]["name"]).type
        /\ system.Reserve[i]["direction"] = TypeEntry(system.Reserve[i]["name"]).direction

\* a reserve with a listed type code is registered with a type that is not
\* the default one
C19_Witness ==
    \E i \in 1..Len(system.Reserve) :
        LET rows == PropertyRows("Reserve", system.Reserve[i]["name"], "Type")
        IN  /\ rows # <<>>
            /\ ToString(rows[1].property_value) \in DOMAIN ReserveTypes
            /\ system.Reserve[i]["type"] # ReserveTypes["default"].type
            /\ system.Reserve[i]["type"] = ReserveTypes[ToString(rows[1].property_value)].type

-----------------------------------------------------------------------------
(* The time-slice handler on its own: property sets of eleven, twelve and   *)
(* thirteen records.  The i-th record is tagged with the month i places     *)
(* after a starting month (wrapping after December), except for one record  *)
(* that may carry any month's tag, and has the value 10 * i, so that an     *)
(* hour's value tells which record wrote it and 0 tells that none did.      *)

\* int(record["text"].strip("M")) (line 876) for the texts "M1".."M12"
TimeSliceTexts ==
    <<"M1", "M2", "M3", "M4", "M5", "M6", "M7", "M8", "M9", "M10", "M11", "M12">>

MonthNumber(text) == CHOOSE m \in 1..12 : TimeSliceTexts[m] = text

\* len(date_time_array) (lines 859-863): the hours of the weather year
HoursInYear == HoursBefore(12) + 24 * DaysInMonth[12]

\* months (line 864): the month of every hour of the weather year
Months == [h \in 1..HoursInYear |-> MonthOfHour(h)]

\* lines 875-878: the records in order, each writing its value to the hours
\* of its month
RECURSIVE TimeSliceLoop(_, _, _)
TimeSliceLoop(property_records, i, month_datetime_series) ==
    IF i > Len(property_records) THEN month_datetime_series
    ELSE TimeSliceLoop(property_records, i + 1,
             [h \in 1..HoursInYear |->
                 IF Months[h] = MonthNumber(property_records[i].text)
                 THEN property_records[i].property_value
                 ELSE month_datetime_series[h]])

\* a handler that takes a property set of any length
TimeSliceAnyLength(property_data) == FALSE

\* line 867: not len(property_data) == 12
PartialTimeSlices(property_data) == Len(property_data) # 12

\* _time_slice_handler (lines 855-882): [error, series] as for the file
\* handler
TimeSliceHandler(property_name, property_data, uuid) ==
    IF PartialTimeSlices(property_data) THEN [error |-> Null, series |-> <<>>]
    ELSE [error |-> Null,
          series |-> <<[uuid |-> uuid,
                        variable_name |-> property_name,
                        resolution |-> "1h",
                        initial_time |-> <<WeatherYear, 1, 1>>,
                        data |-> TimeSliceLoop(property_data, 1,
                                               [h \in 1..HoursInYear |-> 0])]>>]

SliceLengths == {11, 12, 13}

SliceStarts == {1, 6}

SlicePositions == {1, 12}

\* the property set of n records starting at month start whose record at
\* position p is tagged with month q
SliceRecords(n, start, p, q) ==
    [i \in 1..n |->
        [text |-> IF i = p THEN TimeSliceTexts[q]
                  ELSE TimeSliceTexts[((start + i - 2) % 12) + 1],
         property_value |-> 10 * i]]

InitSlice ==
    /\ \E n \in SliceLengths : \E start \in SliceStarts :
         \E p \in SlicePositions : \E q \in 1..12 :
            record_data = SliceRecords(n, start, p, q)
    /\ result = <<>>
    /\ pc = "slices"
    /\ outcome = "ok"
    /\ mapped_properties = EmptyDict
    /\ multi_band_properties = {}
    /\ db = EmptyDb
    /\ run_files = EmptyDict
    /\ model_name = Null
    /\ plexos_data = <<>>
    /\ scenarios = <<>>
    /\ system = EmptySystem
    /\ data_filter = NoFilter

\* a call of _time_slice_handler("Rating", record_data)
TimeSliceHandlerCall ==
    /\ pc = "slices"
    /\ LET handled == TimeSliceHandler("Rating", record_data, "ts1")
       IN  /\ result' = handled.series
           /\ outcome' = IF handled.error = Null THEN "ok" ELSE handled.error
    /\ pc' = "sliced"
    /\ UNCHANGED <<db, run_files, model_name, plexos_data, scenarios, system,
                   data_filter, record_data, mapped_properties,
                   multi_band_properties>>

NextSlice == TimeSliceHandlerCall

SpecSlice == InitSlice /\ [][NextSlice]_vars

\* the records of the property set tagged with month m
TaggedWith(m) ==
    {i \in 1..Len(record_data) : MonthNumber(record_data[i].text) = m}

\* hour h of the year lies in month m
HourInMonth(h, m) ==
    HoursBefore(m) < h /\ h <= HoursBefore(m) + 24 * DaysInMonth[m]

\* every month has exactly one record
OneRecordPerMonth == \A m \in 1..12 : Cardinality(TaggedWith(m)) = 1

(* C20: after the handler has run on twelve records, one tagged with each  *)
(* month code, the result is a series of one value per hour of the weather *)
(* year, starting 1 January with a one-hour step, in which every hour      *)
(* carries the value of the record tagged with the hour's month; whatever  *)
(* the tags, twelve records give a series of that length, start and step;  *)
(* after the handler has run on any other number of records there is no    *)
(* series.                                                                 *)
C20_TwelveSlicesGiveMonthValues ==
    pc = "sliced" =>
        IF Len(record_data) = 12
        THEN /\ Len(result) = 1
             /\ Len(result[1].data) = HoursInYear
             /\ result[1].initial_time = <<WeatherYear, 1, 1>>
             /\ result[1].resolution = "1h"
             /\ OneRecordPerMonth =>
                   \A m \in 1..12 : \A h \in 1..HoursInYear :
                       HourInMonth(h, m) =>
                           \A i \in TaggedWith(m) :
                               result[1].data[h] = record_data[i].property_value
        ELSE result = <<>>

\* the handler has run on twelve records, one per month and not in calendar
\* order, and the first and the last hour of the year carry the values of
\* the records of January and of December
C20_Witness ==
    /\ pc = "sliced"
    /\ Len(record_data) = 12
    /\ OneRecordPerMonth
    /\ record_data[1].text # "M1"
    /\ Len(result) = 1
    /\ \E i, j \in 1..12 :
          /\ record_data[i].text = "M1"
          /\ record_data[j].text = "M12"
          /\ result[1].data[1] = record_data[i].property_value
          /\ result[1].data[HoursInYear] = record_data[j].property_value

(* C21: no series object is attached to two different components: two      *)
(* attachments of the same series name the same component.                 *)
C21_SeriesHasOneOwner ==
    \A k, l \in 1..Len(system.time_series) :
        system.time_series[k].series.uuid = system.time_series[l].series.uuid
            => system.time_series[k].component = system.time_series[l].component

\* the membership edges of collection InterfaceLines from interface I to the
\* line named nm
InterfaceEdges(I, nm) ==
    Cardinality({k \in 1..Len(db.t_membership) :
        LET t == MembershipTuple(db, db.t_membership[k])
        IN  /\ t.collection = "InterfaceLines"
            /\ t.parent_name = I
            /\ t.child_name = nm})

\* the entry of the transmission interface map for interface I
InterfaceMapEntry(I) ==
    LET mapping == system.TransmissionInterfaceMap[1]["mapping"]
    IN  IF I \in DOMAIN mapping THEN mapping[I] ELSE <<>>

(* C22: once the interface stage has added the TransmissionInterfaceMap,    *)
(* the entry of every registered interface holds each registered line once  *)
(* per membership edge from the interface to the line and nothing else,     *)
(* whatever other interfaces, registered or not, the line has edges to.     *)
C22_InterfaceMapHoldsEveryEdge ==
    Len(system.TransmissionInterfaceMap) = 1 =>
        \A i \in 1..Len(system.TransmissionInterface) :
            LET I == system.TransmissionInterface[i]["name"]
            IN  \A nm \in {o.name : o \in db.t_object} :
                    Count("MonitoredLine." \o nm, InterfaceMapEntry(I))
                        = IF HasComponent(system, "MonitoredLine", nm)
                          THEN InterfaceEdges(I, nm) ELSE 0

\* the names of the rows of the bus pivot, in the order the bus builder
\* meets them
BusesEncountered ==
    Names(Pivot(GetModelData(plexos_data, ClassFilter("System", "Node"), scenarios)))

(* C23: at every point of a build the registered buses carry the ids 1..n  *)
(* in the order the builder met them: the k-th registered bus is the k-th  *)
(* row of the bus pivot and has id k, so ids are distinct, start at 1 and  *)
(* have no gaps.                                                           *)
C23_BusIdsSequential ==
    \A k \in 1..Len(system.ACBus) :
        /\ system.ACBus[k]["id"] = k
        /\ k <= Len(BusesEncountered)
        /\ system.ACBus[k]["name"] = BusesEncountered[k]

\* three buses are registered, with the ids 1, 2 and 3
C23_Witness ==
    /\ Len(system.ACBus) = 3
    /\ \A k \in 1..3 : system.ACBus[k]["id"] = k
    /\ {system.ACBus[k]["name"] : k \in 1..3} = {"n1", "n2", "n4"}

====
